---- MODULE Spec2Model ----
(***************************************************************************)
(* studyBuddy: the in-memory user store, the session-request ledger and    *)
(* the route handlers of src/index.js, as a state machine.                 *)
(*                                                                         *)
(* Text values (usernames, passwords, names, majors, raw ids) are          *)
(* sequences of characters or tokens; courses and time slots are only      *)
(* compared for equality and are atoms.  JavaScript arrays are sequences.  *)
(* An agent is one HTTP client with its own session cookie; it has at most *)
(* one request outstanding.  last is the response most recently sent;      *)
(* decided is a history variable: for each request of the ledger, the      *)
(* accept/decline calls that were answered with success, in order.         *)
(***************************************************************************)
EXTENDS Integers, Sequences, FiniteSets, TLC

VARIABLES users, nextUserId, sessionRequests, nextRequestId,
          session, hashing, decided, last

vars == <<users, nextUserId, sessionRequests, nextRequestId,
          session, hashing, decided, last>>

-----------------------------------------------------------------------------
(* Bounds of the model *)

MaxUsers == 3
MaxRequests == 1
NumAgents == 2
RaceUsers == 2
LedgerUsers == 2
LedgerRequests == 2
MatchUsers == 3
SearchUsers == 3

Agents == 1..NumAgents

-----------------------------------------------------------------------------
(* JavaScript values and array helpers *)

Undefined == "undefined"
NaN == -1

(* A text field the request body does not carry reads as undefined *)
Absent == <<Undefined>>

Truthy(s) == s /= <<>> /\ s /= Absent
TruthyAtom(x) == x /= "" /\ x /= Undefined

Includes(arr, x) == \E i \in DOMAIN arr : arr[i] = x

(* Array.prototype.find: the first of the matching positions, 0 for none *)
First(I) == IF I = {} THEN 0 ELSE CHOOSE i \in I : \A j \in I : i <= j

EndsWith(s, suffix) ==
    /\ Len(s) >= Len(suffix)
    /\ SubSeq(s, Len(s) - Len(suffix) + 1, Len(s)) = suffix

Digits == <<"0", "1", "2", "3", "4", "5", "6", "7", "8", "9">>

IsDigit(c) == Includes(Digits, c)

DigitVal(c) == (CHOOSE i \in DOMAIN Digits : Digits[i] = c) - 1

RECURSIVE DigitsValue(_)
DigitsValue(ds) ==
    IF ds = <<>> THEN 0
    ELSE 10 * DigitsValue(SubSeq(ds, 1, Len(ds) - 1)) + DigitVal(ds[Len(ds)])

DigitPrefixLen(raw) ==
    LET Stops == {i \in DOMAIN raw : ~IsDigit(raw[i])}
    IN  IF Stops = {} THEN Len(raw)
        ELSE (CHOOSE i \in Stops : \A j \in Stops : i <= j) - 1

ParseIntOf(raw) ==
    IF DigitPrefixLen(raw) = 0 THEN NaN
    ELSE DigitsValue(SubSeq(raw, 1, DigitPrefixLen(raw)))

(* The raw id strings submitted in this model, and parseInt tabulated on them *)
IdInputs == {<<"1">>, <<"2">>, <<"3">>, <<"1", "0">>, <<"x">>}

ParseIntTable == [raw \in IdInputs |-> ParseIntOf(raw)]

ParseInt(raw) == ParseIntTable[raw]

-----------------------------------------------------------------------------
(* Responses *)

Res(status, body) == [status |-> status, body |-> body]

Redirect(location) == Res(302, location)

-----------------------------------------------------------------------------
(* Store and session lookups *)

ClemsonSuffix == <<"@clemson.edu">>

BcryptHash(password) == [hash |-> password]
BcryptCompare(password, hashed) == hashed.hash = password

FindUserByUsername(username) ==
    First({i \in DOMAIN users : users[i].username = username})

FindUserById(id) == First({i \in DOMAIN users : users[i].id = id})

getCurrentUser(a) ==
    IF session[a] = <<>> THEN 0 ELSE FindUserByUsername(session[a][1])

isAuthenticated(a) == session[a] /= <<>>

Idle(a) == hashing[a] = <<>>

ToLogin == Redirect("/login")

Init ==
    /\ users = <<>>
    /\ nextUserId = 1
    /\ sessionRequests = <<>>
    /\ nextRequestId = 1
    /\ session = [a \in Agents |-> <<>>]
    /\ hashing = [a \in Agents |-> <<>>]
    /\ decided = <<>>
    /\ last = Res(0, "")

-----------------------------------------------------------------------------
(* POST /register: validation, then the suspension at bcrypt.hash, then the *)
(* insert.  RegisterBegin runs up to the await, RegisterFinish after it.    *)
(* Calling endsWith or reading length on an absent field throws; the        *)
(* handler's catch answers 500.                                             *)

(* Variant of RegisterResponse that tests for the domain anywhere in the name *)
RegisterResponse_ContainsDomain(body) ==
    IF body.username = Absent
        THEN Res(500, "Error registering user.")
    ELSE IF ~Includes(body.username, ClemsonSuffix[1])
        THEN Res(400, "Only Clemson emails are allowed.")
    ELSE IF body.password = Absent
        THEN Res(500, "Error registering user.")
    ELSE IF Len(body.password) < 8
        THEN Res(400, "Password must be at least 8 characters long.")
    ELSE IF body.password /= body.confirmPassword
        THEN Res(400, "Passwords do not match.")
    ELSE IF FindUserByUsername(body.username) /= 0
        THEN Res(400, "User already exists.")
    ELSE IF ~Truthy(body.firstName) \/ ~Truthy(body.lastName) \/ ~Truthy(body.major)
        THEN Res(400, "First name, last name, and major are required.")
    ELSE Redirect("/login")

RegisterResponse(body) ==
    IF body.username = Absent
        THEN Res(500, "Error registering user.")
    ELSE IF ~EndsWith(body.username, ClemsonSuffix)
        THEN Res(400, "Only Clemson emails are allowed.")
    ELSE IF body.password = Absent
        THEN Res(500, "Error registering user.")
    ELSE IF Len(body.password) < 8
        THEN Res(400, "Password must be at least 8 characters long.")
    ELSE IF body.password /= body.confirmPassword
        THEN Res(400, "Passwords do not match.")
    ELSE IF FindUserByUsername(body.username) /= 0
        THEN Res(400, "User already exists.")
    ELSE IF ~Truthy(body.firstName) \/ ~Truthy(body.lastName) \/ ~Truthy(body.major)
        THEN Res(400, "First name, last name, and major are required.")
    ELSE Redirect("/login")

NewUser(id, reg) ==
    [id |-> id, username |-> reg.username, password |-> BcryptHash(reg.password),
     name |-> reg.name, major |-> reg.major, courses |-> <<>>, availability |-> <<>>]

RegisterBegin(a, body) ==
    /\ Idle(a)
    /\ LET res == RegisterResponse(body) IN
        IF res.status = 302
        THEN /\ hashing' = [hashing EXCEPT ![a] =
                    <<[username |-> body.username, password |-> body.password,
                       name |-> body.firstName \o <<" ">> \o body.lastName,
                       major |-> body.major]>>]
             /\ UNCHANGED last
        ELSE /\ last' = res
             /\ UNCHANGED hashing
    /\ UNCHANGED <<users, nextUserId, sessionRequests, nextRequestId, session, decided>>

(* Variant of RegisterFinish that does not advance the id counter *)
RegisterFinish_KeepsCounter(a) ==
    /\ ~Idle(a)
    /\ users' = Append(users, NewUser(nextUserId, hashing[a][1]))
    /\ hashing' = [hashing EXCEPT ![a] = <<>>]
    /\ last' = Redirect("/login")
    /\ UNCHANGED <<nextUserId, sessionRequests, nextRequestId, session, decided>>

RegisterFinish(a) ==
    /\ ~Idle(a)
    /\ users' = Append(users, NewUser(nextUserId, hashing[a][1]))
    /\ nextUserId' = nextUserId + 1
    /\ hashing' = [hashing EXCEPT ![a] = <<>>]
    /\ last' = Redirect("/login")
    /\ UNCHANGED <<sessionRequests, nextRequestId, session, decided>>

-----------------------------------------------------------------------------
(* POST /login, GET /logout.  The login handler also awaits (bcrypt.compare) *)
(* between its lookup and its session write; what it read before the await *)
(* (the record's username and password hash) is never changed or removed   *)
(* by any handler, so the two halves are one step here.  The session keeps *)
(* a copy of the user; handlers read only its username.                    *)

(* Variant of LoginUser that does not compare the password *)
LoginUser_AnyPassword(username, password) == FindUserByUsername(username)

LoginUser(username, password) ==
    LET i == FindUserByUsername(username)
    IN  IF i /= 0 /\ BcryptCompare(password, users[i].password) THEN i ELSE 0

(* bcrypt.compare rejects when the password is absent; it is only called    *)
(* when the username was found, and the handler's catch answers 500.        *)
Login(a, username, password) ==
    /\ Idle(a)
    /\ IF FindUserByUsername(username) /= 0 /\ password = Absent
       THEN /\ last' = Res(500, "Error logging in.")
            /\ UNCHANGED session
       ELSE LET i == LoginUser(username, password) IN
            IF i /= 0
            THEN /\ session' = [session EXCEPT ![a] = <<users[i].username>>]
                 /\ last' = Redirect("/dashboard")
            ELSE /\ last' = Res(400, "Invalid credentials.")
                 /\ UNCHANGED session
    /\ UNCHANGED <<users, nextUserId, sessionRequests, nextRequestId, hashing, decided>>

Logout(a) ==
    /\ Idle(a)
    /\ session' = [session EXCEPT ![a] = <<>>]
    /\ last' = Redirect("/login")
    /\ UNCHANGED <<users, nextUserId, sessionRequests, nextRequestId, hashing, decided>>

-----------------------------------------------------------------------------
(* POST /profile, POST /courses/add, POST /courses/remove, POST /availability *)

(* Variant of PostProfile that asks for a name or a major *)
PostProfile_EitherField(a, name, major) ==
    /\ Idle(a)
    /\ IF ~isAuthenticated(a)
       THEN last' = ToLogin /\ UNCHANGED users
       ELSE LET i == getCurrentUser(a) IN
            IF Truthy(name) \/ Truthy(major)
            THEN /\ users' = [users EXCEPT ![i].name = name, ![i].major = major]
                 /\ last' = Redirect("/profile")
            ELSE /\ last' = Res(400, "Name and major are required.")
                 /\ UNCHANGED users
    /\ UNCHANGED <<nextUserId, sessionRequests, nextRequestId, session, hashing, decided>>

(* Variant of PostProfile that writes the submitted name over the username *)
PostProfile_RenamesUser(a, name, major) ==
    /\ Idle(a)
    /\ IF ~isAuthenticated(a)
       THEN last' = ToLogin /\ UNCHANGED users
       ELSE LET i == getCurrentUser(a) IN
            IF Truthy(name) /\ Truthy(major)
            THEN /\ users' = [users EXCEPT ![i].username = name, ![i].major = major]
                 /\ last' = Redirect("/profile")
            ELSE /\ last' = Res(400, "Name and major are required.")
                 /\ UNCHANGED users
    /\ UNCHANGED <<nextUserId, sessionRequests, nextRequestId, session, hashing, decided>>

PostProfile(a, name, major) ==
    /\ Idle(a)
    /\ IF ~isAuthenticated(a)
       THEN last' = ToLogin /\ UNCHANGED users
       ELSE LET i == getCurrentUser(a) IN
            IF Truthy(name) /\ Truthy(major)
            THEN /\ users' = [users EXCEPT ![i].name = name, ![i].major = major]
                 /\ last' = Redirect("/profile")
            ELSE /\ last' = Res(400, "Name and major are required.")
                 /\ UNCHANGED users
    /\ UNCHANGED <<nextUserId, sessionRequests, nextRequestId, session, hashing, decided>>

(* Variant of AddCourse without the test for a course already present *)
AddCourse_NoIncludesCheck(courses, course) ==
    IF TruthyAtom(course) THEN Append(courses, course) ELSE courses

AddCourse(courses, course) ==
    IF TruthyAtom(course) /\ ~Includes(courses, course)
    THEN Append(courses, course)
    ELSE courses

CoursesAdd(a, course) ==
    /\ Idle(a)
    /\ IF ~isAuthenticated(a)
       THEN last' = ToLogin /\ UNCHANGED users
       ELSE LET i == getCurrentUser(a) IN
            /\ users' = [users EXCEPT ![i].courses = AddCourse(@, course)]
            /\ last' = Redirect("/courses")
    /\ UNCHANGED <<nextUserId, sessionRequests, nextRequestId, session, hashing, decided>>

(* Variant of RemoveCourse with the filter's test inverted *)
RemoveCourse_Inverted(courses, course) == SelectSeq(courses, LAMBDA c : c = course)

RemoveCourse(courses, course) == SelectSeq(courses, LAMBDA c : c /= course)

CoursesRemove(a, course) ==
    /\ Idle(a)
    /\ IF ~isAuthenticated(a)
       THEN last' = ToLogin /\ UNCHANGED users
       ELSE LET i == getCurrentUser(a) IN
            /\ users' = [users EXCEPT ![i].courses = RemoveCourse(@, course)]
            /\ last' = Redirect("/courses")
    /\ UNCHANGED <<nextUserId, sessionRequests, nextRequestId, session, hashing, decided>>

(* A submitted availability field: a list of slots, one slot, or no field. *)
ArrayOf(slots) == [isArray |-> TRUE, value |-> slots]
Single(slot) == [isArray |-> FALSE, value |-> <<slot>>]
NoField == [isArray |-> FALSE, value |-> <<Undefined>>]

NormalizeAvailability(availability) ==
    IF availability.isArray THEN availability.value ELSE <<availability.value[1]>>

PostAvailability(a, availability) ==
    /\ Idle(a)
    /\ IF ~isAuthenticated(a)
       THEN last' = ToLogin /\ UNCHANGED users
       ELSE LET i == getCurrentUser(a) IN
            /\ users' = [users EXCEPT ![i].availability = NormalizeAvailability(availability)]
            /\ last' = Redirect("/dashboard")
    /\ UNCHANGED <<nextUserId, sessionRequests, nextRequestId, session, hashing, decided>>

-----------------------------------------------------------------------------
(* POST /send-request *)

(* Variants of SendRequestResponse with one check weakened *)
SendRequestResponse_SenderSlotOnly(a, recipientId, course, timeSlot) ==
    LET fromUser == users[getCurrentUser(a)]
        t == FindUserById(ParseInt(recipientId))
        toUser == users[t]
    IN  IF t = 0 THEN Res(400, "Recipient not found.")
        ELSE IF toUser.id = fromUser.id
            THEN Res(400, "Cannot send request to yourself.")
        ELSE IF ~Includes(fromUser.courses, course) \/ ~Includes(toUser.courses, course)
            THEN Res(400, "You must share the selected course.")
        ELSE IF ~Includes(fromUser.availability, timeSlot)
            THEN Res(400, "Selected time slot is not available for both users.")
        ELSE Redirect("/dashboard")

SendRequestResponse_SenderCourseOnly(a, recipientId, course, timeSlot) ==
    LET fromUser == users[getCurrentUser(a)]
        t == FindUserById(ParseInt(recipientId))
        toUser == users[t]
    IN  IF t = 0 THEN Res(400, "Recipient not found.")
        ELSE IF toUser.id = fromUser.id
            THEN Res(400, "Cannot send request to yourself.")
        ELSE IF ~Includes(fromUser.courses, course)
            THEN Res(400, "You must share the selected course.")
        ELSE IF ~(Includes(fromUser.availability, timeSlot)
                  /\ Includes(toUser.availability, timeSlot))
            THEN Res(400, "Selected time slot is not available for both users.")
        ELSE Redirect("/dashboard")

SendRequestResponse_Dedup(a, recipientId, course, timeSlot) ==
    LET fromUser == users[getCurrentUser(a)]
        t == FindUserById(ParseInt(recipientId))
        toUser == users[t]
    IN  IF t = 0 THEN Res(400, "Recipient not found.")
        ELSE IF toUser.id = fromUser.id
            THEN Res(400, "Cannot send request to yourself.")
        ELSE IF ~Includes(fromUser.courses, course) \/ ~Includes(toUser.courses, course)
            THEN Res(400, "You must share the selected course.")
        ELSE IF ~(Includes(fromUser.availability, timeSlot)
                  /\ Includes(toUser.availability, timeSlot))
            THEN Res(400, "Selected time slot is not available for both users.")
        ELSE IF \E i \in DOMAIN sessionRequests :
                    /\ sessionRequests[i].fromUserId = fromUser.id
                    /\ sessionRequests[i].toUserId = toUser.id
                    /\ sessionRequests[i].course = course
                    /\ sessionRequests[i].timeSlot = timeSlot
                    /\ sessionRequests[i].status = "pending"
            THEN Res(400, "Request already pending.")
        ELSE Redirect("/dashboard")

SendRequestResponse_NoSelfCheck(a, recipientId, course, timeSlot) ==
    LET fromUser == users[getCurrentUser(a)]
        t == FindUserById(ParseInt(recipientId))
        toUser == users[t]
    IN  IF t = 0 THEN Res(400, "Recipient not found.")
        ELSE IF ~Includes(fromUser.courses, course) \/ ~Includes(toUser.courses, course)
            THEN Res(400, "You must share the selected course.")
        ELSE IF ~(Includes(fromUser.availability, timeSlot)
                  /\ Includes(toUser.availability, timeSlot))
            THEN Res(400, "Selected time slot is not available for both users.")
        ELSE Redirect("/dashboard")

SendRequestResponse(a, recipientId, course, timeSlot) ==
    LET fromUser == users[getCurrentUser(a)]
        t == FindUserById(ParseInt(recipientId))
        toUser == users[t]
    IN  IF t = 0 THEN Res(400, "Recipient not found.")
        ELSE IF toUser.id = fromUser.id
            THEN Res(400, "Cannot send request to yourself.")
        ELSE IF ~Includes(fromUser.courses, course) \/ ~Includes(toUser.courses, course)
            THEN Res(400, "You must share the selected course.")
        ELSE IF ~(Includes(fromUser.availability, timeSlot)
                  /\ Includes(toUser.availability, timeSlot))
            THEN Res(400, "Selected time slot is not available for both users.")
        ELSE Redirect("/dashboard")

(* new Date().toISOString(): the wall clock's reading, one of Timestamps *)
Timestamps == {"2025-01-01T10:00:00.000Z", "2025-01-01T10:00:01.000Z"}

(* Variants of NewRequest: array positions (from 0) stored for the user ids; *)
(* the id taken from the user counter.                                      *)
NewRequest_StoresIndex(a, recipientId, course, timeSlot, now) ==
    [id |-> nextRequestId,
     fromUserId |-> getCurrentUser(a) - 1,
     toUserId |-> FindUserById(ParseInt(recipientId)) - 1,
     course |-> course, timeSlot |-> timeSlot, status |-> "pending",
     createdAt |-> now]

NewRequest_UserCounter(a, recipientId, course, timeSlot, now) ==
    [id |-> nextUserId,
     fromUserId |-> users[getCurrentUser(a)].id,
     toUserId |-> users[FindUserById(ParseInt(recipientId))].id,
     course |-> course, timeSlot |-> timeSlot, status |-> "pending",
     createdAt |-> now]

NewRequest(a, recipientId, course, timeSlot, now) ==
    [id |-> nextRequestId,
     fromUserId |-> users[getCurrentUser(a)].id,
     toUserId |-> users[FindUserById(ParseInt(recipientId))].id,
     course |-> course, timeSlot |-> timeSlot, status |-> "pending",
     createdAt |-> now]

SendRequest(a, recipientId, course, timeSlot) ==
    /\ Idle(a)
    /\ IF ~isAuthenticated(a)
       THEN /\ last' = ToLogin
            /\ UNCHANGED <<sessionRequests, nextRequestId, decided>>
       ELSE LET res == SendRequestResponse(a, recipientId, course, timeSlot) IN
            /\ last' = res
            /\ IF res.status = 302
               THEN /\ \E now \in Timestamps :
                        sessionRequests' = Append(sessionRequests,
                            NewRequest(a, recipientId, course, timeSlot, now))
                    /\ nextRequestId' = nextRequestId + 1
                    /\ decided' = Append(decided, <<>>)
               ELSE UNCHANGED <<sessionRequests, nextRequestId, decided>>
    /\ UNCHANGED <<users, nextUserId, session, hashing>>

-----------------------------------------------------------------------------
(* POST /requests/:id/accept, /requests/:id/decline, /sessions/:id/cancel *)

FindRequest(id) ==
    First({i \in DOMAIN sessionRequests : sessionRequests[i].id = ParseInt(id)})

(* Variants of the accept/decline/cancel checks with one check changed *)
AcceptResponse_AnyParticipant(a, id) ==
    LET user == users[getCurrentUser(a)]
        f == FindRequest(id)
        found == sessionRequests[f]
    IN  IF f = 0 THEN Res(404, "Request not found.")
        ELSE IF found.toUserId /= user.id /\ found.fromUserId /= user.id
            THEN Res(403, "Not authorized to accept this request.")
        ELSE IF found.status /= "pending" THEN Res(400, "Request is not pending.")
        ELSE Redirect("/dashboard")

AcceptResponse_NoStatusCheck(a, id) ==
    LET user == users[getCurrentUser(a)]
        f == FindRequest(id)
        found == sessionRequests[f]
    IN  IF f = 0 THEN Res(404, "Request not found.")
        ELSE IF found.toUserId /= user.id
            THEN Res(403, "Not authorized to accept this request.")
        ELSE Redirect("/dashboard")

DeclineResponse_NoStatusCheck(a, id) ==
    LET user == users[getCurrentUser(a)]
        f == FindRequest(id)
        found == sessionRequests[f]
    IN  IF f = 0 THEN Res(404, "Request not found.")
        ELSE IF found.toUserId /= user.id
            THEN Res(403, "Not authorized to decline this request.")
        ELSE Redirect("/dashboard")

CancelResponse_AnyStatus(a, id, redirectTo) ==
    LET user == users[getCurrentUser(a)]
        f == FindRequest(id)
        found == sessionRequests[f]
        isParticipant == found.fromUserId = user.id \/ found.toUserId = user.id
    IN  IF f = 0 THEN Res(404, "Session not found.")
        ELSE IF ~isParticipant THEN Res(403, "Not authorized to cancel this session.")
        ELSE Redirect(IF TruthyAtom(redirectTo) THEN redirectTo ELSE "/dashboard")

CancelResponse_RecipientOnly(a, id, redirectTo) ==
    LET user == users[getCurrentUser(a)]
        f == FindRequest(id)
        found == sessionRequests[f]
        isParticipant == found.toUserId = user.id
    IN  IF f = 0 THEN Res(404, "Session not found.")
        ELSE IF ~isParticipant THEN Res(403, "Not authorized to cancel this session.")
        ELSE IF found.status /= "accepted"
            THEN Res(400, "Only accepted sessions can be canceled.")
        ELSE Redirect(IF TruthyAtom(redirectTo) THEN redirectTo ELSE "/dashboard")

CancelResponse_StatusFirst(a, id, redirectTo) ==
    LET user == users[getCurrentUser(a)]
        f == FindRequest(id)
        found == sessionRequests[f]
        isParticipant == found.fromUserId = user.id \/ found.toUserId = user.id
    IN  IF f = 0 THEN Res(404, "Session not found.")
        ELSE IF found.status /= "accepted"
            THEN Res(400, "Only accepted sessions can be canceled.")
        ELSE IF ~isParticipant THEN Res(403, "Not authorized to cancel this session.")
        ELSE Redirect(IF TruthyAtom(redirectTo) THEN redirectTo ELSE "/dashboard")

CancelResponse_Repeatable(a, id, redirectTo) ==
    LET user == users[getCurrentUser(a)]
        f == FindRequest(id)
        found == sessionRequests[f]
        isParticipant == found.fromUserId = user.id \/ found.toUserId = user.id
    IN  IF f = 0 THEN Res(404, "Session not found.")
        ELSE IF ~isParticipant THEN Res(403, "Not authorized to cancel this session.")
        ELSE IF found.status \notin {"accepted", "cancelled"}
            THEN Res(400, "Only accepted sessions can be canceled.")
        ELSE Redirect(IF TruthyAtom(redirectTo) THEN redirectTo ELSE "/dashboard")

CancelResponse_PendingToo(a, id, redirectTo) ==
    LET user == users[getCurrentUser(a)]
        f == FindRequest(id)
        found == sessionRequests[f]
        isParticipant == found.fromUserId = user.id \/ found.toUserId = user.id
    IN  IF f = 0 THEN Res(404, "Session not found.")
        ELSE IF ~isParticipant THEN Res(403, "Not authorized to cancel this session.")
        ELSE IF found.status \notin {"accepted", "pending"}
            THEN Res(400, "Only accepted sessions can be canceled.")
        ELSE Redirect(IF TruthyAtom(redirectTo) THEN redirectTo ELSE "/dashboard")

(* Variant of AcceptResponse that checks the course and the slot again *)
AcceptResponse_RechecksCourse(a, id) ==
    LET user == users[getCurrentUser(a)]
        f == FindRequest(id)
        found == sessionRequests[f]
        fromUser == users[FindUserById(found.fromUserId)]
    IN  IF f = 0 THEN Res(404, "Request not found.")
        ELSE IF found.toUserId /= user.id
            THEN Res(403, "Not authorized to accept this request.")
        ELSE IF found.status /= "pending" THEN Res(400, "Request is not pending.")
        ELSE IF ~Includes(fromUser.courses, found.course)
                \/ ~Includes(user.courses, found.course)
            THEN Res(400, "You must share the selected course.")
        ELSE IF ~Includes(fromUser.availability, found.timeSlot)
                \/ ~Includes(user.availability, found.timeSlot)
            THEN Res(400, "Selected time slot is not available for both users.")
        ELSE Redirect("/dashboard")

AcceptResponse(a, id) ==
    LET user == users[getCurrentUser(a)]
        f == FindRequest(id)
        found == sessionRequests[f]
    IN  IF f = 0 THEN Res(404, "Request not found.")
        ELSE IF found.toUserId /= user.id
            THEN Res(403, "Not authorized to accept this request.")
        ELSE IF found.status /= "pending" THEN Res(400, "Request is not pending.")
        ELSE Redirect("/dashboard")

(* Variant of DeclineResponse without the test for the recipient *)
DeclineResponse_NoRecipientCheck(a, id) ==
    LET user == users[getCurrentUser(a)]
        f == FindRequest(id)
        found == sessionRequests[f]
    IN  IF f = 0 THEN Res(404, "Request not found.")
        ELSE IF found.status /= "pending" THEN Res(400, "Request is not pending.")
        ELSE Redirect("/dashboard")

DeclineResponse(a, id) ==
    LET user == users[getCurrentUser(a)]
        f == FindRequest(id)
        found == sessionRequests[f]
    IN  IF f = 0 THEN Res(404, "Request not found.")
        ELSE IF found.toUserId /= user.id
            THEN Res(403, "Not authorized to decline this request.")
        ELSE IF found.status /= "pending" THEN Res(400, "Request is not pending.")
        ELSE Redirect("/dashboard")

CancelResponse(a, id, redirectTo) ==
    LET user == users[getCurrentUser(a)]
        f == FindRequest(id)
        found == sessionRequests[f]
        isParticipant == found.fromUserId = user.id \/ found.toUserId = user.id
    IN  IF f = 0 THEN Res(404, "Session not found.")
        ELSE IF ~isParticipant THEN Res(403, "Not authorized to cancel this session.")
        ELSE IF found.status /= "accepted"
            THEN Res(400, "Only accepted sessions can be canceled.")
        ELSE Redirect(IF TruthyAtom(redirectTo) THEN redirectTo ELSE "/dashboard")

(* Variant of SetStatus that also stamps the request anew *)
SetStatus_Restamp(id, status) ==
    [sessionRequests EXCEPT ![FindRequest(id)].status = status,
                            ![FindRequest(id)].createdAt = "2025-01-01T10:00:01.000Z"]

SetStatus(id, status) ==
    [sessionRequests EXCEPT ![FindRequest(id)].status = status]

(* Variant of Accept that writes the status before the authorization check *)
Accept_WriteBeforeCheck(a, id) ==
    /\ Idle(a)
    /\ IF ~isAuthenticated(a)
       THEN /\ last' = ToLogin
            /\ UNCHANGED <<sessionRequests, decided>>
       ELSE LET res == AcceptResponse(a, id) IN
            /\ last' = res
            /\ IF res.status /= 404
               THEN /\ sessionRequests' = SetStatus(id, "accepted")
                    /\ decided' = [decided EXCEPT ![FindRequest(id)] = Append(@, "accepted")]
               ELSE UNCHANGED <<sessionRequests, decided>>
    /\ UNCHANGED <<users, nextUserId, nextRequestId, session, hashing>>

Accept(a, id) ==
    /\ Idle(a)
    /\ IF ~isAuthenticated(a)
       THEN /\ last' = ToLogin
            /\ UNCHANGED <<sessionRequests, decided>>
       ELSE LET res == AcceptResponse(a, id) IN
            /\ last' = res
            /\ IF res.status = 302
               THEN /\ sessionRequests' = SetStatus(id, "accepted")
                    /\ decided' = [decided EXCEPT ![FindRequest(id)] = Append(@, "accepted")]
               ELSE UNCHANGED <<sessionRequests, decided>>
    /\ UNCHANGED <<users, nextUserId, nextRequestId, session, hashing>>

Decline(a, id) ==
    /\ Idle(a)
    /\ IF ~isAuthenticated(a)
       THEN /\ last' = ToLogin
            /\ UNCHANGED <<sessionRequests, decided>>
       ELSE LET res == DeclineResponse(a, id) IN
            /\ last' = res
            /\ IF res.status = 302
               THEN /\ sessionRequests' = SetStatus(id, "declined")
                    /\ decided' = [decided EXCEPT ![FindRequest(id)] = Append(@, "declined")]
               ELSE UNCHANGED <<sessionRequests, decided>>
    /\ UNCHANGED <<users, nextUserId, nextRequestId, session, hashing>>

Cancel(a, id, redirectTo) ==
    /\ Idle(a)
    /\ IF ~isAuthenticated(a)
       THEN /\ last' = ToLogin
            /\ UNCHANGED sessionRequests
       ELSE LET res == CancelResponse(a, id, redirectTo) IN
            /\ last' = res
            /\ IF res.status = 302
               THEN sessionRequests' = SetStatus(id, "cancelled")
               ELSE UNCHANGED sessionRequests
    /\ UNCHANGED <<users, nextUserId, nextRequestId, session, hashing, decided>>

-----------------------------------------------------------------------------
(* GET /dashboard: the suggested matches.  map gives one entry or null per  *)
(* user of the store, filter(Boolean) drops the nulls, and sort orders the  *)
(* entries by descending score; Array.prototype.sort is stable.             *)

mutualCourses(user, otherUser) ==
    SelectSeq(user.courses, LAMBDA course : Includes(otherUser.courses, course))

overlappingAvailability(user, otherUser) ==
    SelectSeq(user.availability, LAMBDA slot : Includes(otherUser.availability, slot))

(* Variant of MatchOf that asks for shared courses or overlapping slots *)
MatchOf_EitherNonEmpty(user, otherUser) ==
    IF otherUser.id = user.id THEN <<>>
    ELSE IF Len(mutualCourses(user, otherUser)) > 0
            \/ Len(overlappingAvailability(user, otherUser)) > 0
    THEN <<[id |-> otherUser.id, name |-> otherUser.name, major |-> otherUser.major,
            mutualCourses |-> mutualCourses(user, otherUser),
            overlappingAvailability |-> overlappingAvailability(user, otherUser),
            score |-> Len(mutualCourses(user, otherUser))
                        + Len(overlappingAvailability(user, otherUser))]>>
    ELSE <<>>

(* Variant of sharedCourses that tests the candidate's courses against themselves *)
sharedCourses_CandidateOnly(currentUser, u) ==
    SelectSeq(u.courses, LAMBDA c : Includes(u.courses, c))

(* POST /search computes the same two lists for each candidate u *)
sharedCourses(currentUser, u) ==
    SelectSeq(currentUser.courses, LAMBDA c : Includes(u.courses, c))

overlapAvailability(currentUser, u) ==
    SelectSeq(currentUser.availability, LAMBDA slot : Includes(u.availability, slot))

(* The map callback: <<entry>>, or <<>> for null *)
MatchOf(user, otherUser) ==
    IF otherUser.id = user.id THEN <<>>
    ELSE IF Len(mutualCourses(user, otherUser)) > 0
            /\ Len(overlappingAvailability(user, otherUser)) > 0
    THEN <<[id |-> otherUser.id, name |-> otherUser.name, major |-> otherUser.major,
            mutualCourses |-> mutualCourses(user, otherUser),
            overlappingAvailability |-> overlappingAvailability(user, otherUser),
            score |-> Len(mutualCourses(user, otherUser))
                        + Len(overlappingAvailability(user, otherUser))]>>
    ELSE <<>>

RECURSIVE MapMatches(_, _)
MapMatches(user, k) ==
    IF k = 0 THEN <<>> ELSE MapMatches(user, k - 1) \o MatchOf(user, users[k])

(* Variant of InsertByScore that puts x in front of the entries of equal score *)
InsertByScore_TiesFirst(t, x) ==
    LET k == Cardinality({p \in DOMAIN t : t[p].score > x.score})
    IN  SubSeq(t, 1, k) \o <<x>> \o SubSeq(t, k + 1, Len(t))

(* sort((a, b) => b.score - a.score): x goes behind every entry of the      *)
(* sorted t whose score is not smaller                                      *)
InsertByScore(t, x) ==
    LET k == Cardinality({p \in DOMAIN t : t[p].score >= x.score})
    IN  SubSeq(t, 1, k) \o <<x>> \o SubSeq(t, k + 1, Len(t))

RECURSIVE SortByScore(_)
SortByScore(arr) ==
    IF arr = <<>> THEN <<>>
    ELSE InsertByScore(SortByScore(SubSeq(arr, 1, Len(arr) - 1)), arr[Len(arr)])

suggestedMatches(user) == SortByScore(MapMatches(user, Len(users)))

Dashboard(a) ==
    /\ Idle(a)
    /\ last' = IF ~isAuthenticated(a) THEN ToLogin ELSE Res(200, "dashboard")
    /\ UNCHANGED <<users, nextUserId, sessionRequests, nextRequestId,
                   session, hashing, decided>>

-----------------------------------------------------------------------------
(* POST /search: the other users, narrowed by course, mapped to result      *)
(* entries, then narrowed by major and by availability.                     *)

UpperLetters == <<"A", "B", "C", "D", "E", "F", "G", "H", "I", "J", "K", "L", "M",
                  "N", "O", "P", "Q", "R", "S", "T", "U", "V", "W", "X", "Y", "Z">>

LowerLetters == <<"a", "b", "c", "d", "e", "f", "g", "h", "i", "j", "k", "l", "m",
                  "n", "o", "p", "q", "r", "s", "t", "u", "v", "w", "x", "y", "z">>

ToLowerChar(c) ==
    IF Includes(UpperLetters, c)
    THEN LowerLetters[CHOOSE i \in DOMAIN UpperLetters : UpperLetters[i] = c]
    ELSE c

ToLowerCase(s) == [k \in 1..Len(s) |-> ToLowerChar(s[k])]

WhiteSpace == {" ", "\t", "\n"}

(* String.prototype.trim: from the first to the last character that is not *)
(* white space                                                              *)
Trim(s) ==
    LET Inked == {k \in DOMAIN s : s[k] \notin WhiteSpace}
    IN  IF Inked = {} THEN <<>>
        ELSE SubSeq(s, CHOOSE k \in Inked : \A m \in Inked : k <= m,
                       CHOOSE k \in Inked : \A m \in Inked : k >= m)

(* availabilityFilter: an array as it is, a non-empty string alone, else [] *)
SelectedTimes(availabilityFilter) ==
    IF availabilityFilter.isArray THEN availabilityFilter.value
    ELSE IF TruthyAtom(availabilityFilter.value[1]) THEN <<availabilityFilter.value[1]>>
    ELSE <<>>

BasePool(currentUser) ==
    SelectSeq(users, LAMBDA u : u.username /= currentUser.username)

(* Variant of CourseFiltered that also wants the course of the searching user *)
CourseFiltered_SharedOnly(currentUser, course) ==
    IF TruthyAtom(course)
    THEN SelectSeq(BasePool(currentUser),
            LAMBDA u : Includes(u.courses, course) /\ Includes(currentUser.courses, course))
    ELSE BasePool(currentUser)

CourseFiltered(currentUser, course) ==
    IF TruthyAtom(course)
    THEN SelectSeq(BasePool(currentUser), LAMBDA u : Includes(u.courses, course))
    ELSE BasePool(currentUser)

SearchEntry(currentUser, u) ==
    [id |-> u.id, username |-> u.username, name |-> u.name, major |-> u.major,
     sharedCourses |-> sharedCourses(currentUser, u),
     overlapAvailability |-> overlapAvailability(currentUser, u)]

MappedResults(currentUser, course) ==
    LET pool == CourseFiltered(currentUser, course)
    IN  [k \in 1..Len(pool) |-> SearchEntry(currentUser, pool[k])]

(* Variant of MajorFiltered that looks for the filter inside the major *)
MajorFiltered_Substring(results, majorFilter) ==
    IF Truthy(majorFilter) /\ Len(Trim(majorFilter)) > 0
    THEN SelectSeq(results,
            LAMBDA r : LET mf == ToLowerCase(Trim(majorFilter))
                           major == ToLowerCase(r.major)
                       IN  \E k \in 1..(Len(major) - Len(mf) + 1) :
                                SubSeq(major, k, k + Len(mf) - 1) = mf)
    ELSE results

MajorFiltered(results, majorFilter) ==
    IF Truthy(majorFilter) /\ Len(Trim(majorFilter)) > 0
    THEN SelectSeq(results,
            LAMBDA r : ToLowerCase(r.major) = ToLowerCase(Trim(majorFilter)))
    ELSE results

(* Variant of AvailabilityFiltered that wants every overlapping slot selected *)
AvailabilityFiltered_Every(results, selectedTimes) ==
    IF Len(selectedTimes) > 0
    THEN SelectSeq(results,
            LAMBDA r : \A k \in DOMAIN r.overlapAvailability :
                            Includes(selectedTimes, r.overlapAvailability[k]))
    ELSE results

AvailabilityFiltered(results, selectedTimes) ==
    IF Len(selectedTimes) > 0
    THEN SelectSeq(results,
            LAMBDA r : \E k \in DOMAIN r.overlapAvailability :
                            Includes(selectedTimes, r.overlapAvailability[k]))
    ELSE results

SearchResults(currentUser, course, majorFilter, availabilityFilter) ==
    AvailabilityFiltered(
        MajorFiltered(MappedResults(currentUser, course), majorFilter),
        SelectedTimes(availabilityFilter))

Search(a, course, majorFilter, availabilityFilter) ==
    /\ Idle(a)
    /\ last' = IF ~isAuthenticated(a) THEN ToLogin ELSE Res(200, "search")
    /\ UNCHANGED <<users, nextUserId, sessionRequests, nextRequestId,
                   session, hashing, decided>>

-----------------------------------------------------------------------------
(* The request lists of GET /dashboard, GET /sessions and GET /requests.json *)

incomingRequests(user) ==
    SelectSeq(sessionRequests, LAMBDA r : r.toUserId = user.id /\ r.status = "pending")

outgoingRequests(user) == SelectSeq(sessionRequests, LAMBDA r : r.fromUserId = user.id)

upcomingSessions(user) ==
    SelectSeq(sessionRequests,
        LAMBDA r : (r.fromUserId = user.id \/ r.toUserId = user.id) /\ r.status = "accepted")

(* Variant of confirmedSessions that lists every session no longer pending *)
confirmedSessions_NotPending(user) ==
    SelectSeq(sessionRequests,
        LAMBDA r : (r.fromUserId = user.id \/ r.toUserId = user.id) /\ r.status /= "pending")

confirmedSessions(user) ==
    SelectSeq(sessionRequests,
        LAMBDA r : (r.fromUserId = user.id \/ r.toUserId = user.id) /\ r.status = "accepted")

pendingSessions(user) ==
    SelectSeq(sessionRequests,
        LAMBDA r : (r.fromUserId = user.id \/ r.toUserId = user.id) /\ r.status = "pending")

(* Variant of incoming with the dashboard's test for pending requests *)
incoming_PendingOnly(user) ==
    SelectSeq(sessionRequests, LAMBDA r : r.toUserId = user.id /\ r.status = "pending")

incoming(user) == SelectSeq(sessionRequests, LAMBDA r : r.toUserId = user.id)

outgoing(user) == SelectSeq(sessionRequests, LAMBDA r : r.fromUserId = user.id)

Sessions(a) ==
    /\ Idle(a)
    /\ last' = IF ~isAuthenticated(a) THEN ToLogin ELSE Res(200, "sessions")
    /\ UNCHANGED <<users, nextUserId, sessionRequests, nextRequestId,
                   session, hashing, decided>>

RequestsJson(a) ==
    /\ Idle(a)
    /\ last' = IF ~isAuthenticated(a) THEN ToLogin ELSE Res(200, "requests.json")
    /\ UNCHANGED <<users, nextUserId, sessionRequests, nextRequestId,
                   session, hashing, decided>>

-----------------------------------------------------------------------------
(* GET /users.json and the pages behind isAuthenticated that only render:  *)
(* GET /profile, GET /courses, GET /search, GET /availability.              *)

minimal ==
    [i \in DOMAIN users |->
        [id |-> users[i].id, username |-> users[i].username,
         name |-> users[i].name, major |-> users[i].major]]

(* Variant of UsersJson registered without the isAuthenticated middleware *)
UsersJson_Public(a) ==
    /\ Idle(a)
    /\ last' = Res(200, "users.json")
    /\ UNCHANGED <<users, nextUserId, sessionRequests, nextRequestId,
                   session, hashing, decided>>

UsersJson(a) ==
    /\ Idle(a)
    /\ last' = IF ~isAuthenticated(a) THEN ToLogin ELSE Res(200, "users.json")
    /\ UNCHANGED <<users, nextUserId, sessionRequests, nextRequestId,
                   session, hashing, decided>>

Pages == {"profile", "courses", "search", "availability"}

GetPage(a, page) ==
    /\ Idle(a)
    /\ last' = IF ~isAuthenticated(a) THEN ToLogin ELSE Res(200, page)
    /\ UNCHANGED <<users, nextUserId, sessionRequests, nextRequestId,
                   session, hashing, decided>>

-----------------------------------------------------------------------------
(* Inputs *)

Letters == <<"a", "b", "c", "d", "e", "f", "g", "h">>

Username(i) == <<Letters[i], "@clemson.edu">>

Password == <<"p", "a", "s", "s", "w", "o", "r", "d">>

ValidBody(username) ==
    [username |-> username, password |-> Password, confirmPassword |-> Password,
     firstName |-> <<"F">>, lastName |-> <<"L">>, major |-> <<"C", "S">>]

(* Usernames are interchangeable: a registration takes a name already     *)
(* submitted or the first fresh one.                                      *)
Submitted ==
    {users[i].username : i \in DOMAIN users}
        \cup {hashing[a][1].username : a \in {b \in Agents : ~Idle(b)}}

RegisterNames(n) ==
    LET names == {Username(i) : i \in 1..n}
        fresh == {i \in 1..n : Username(i) \notin Submitted}
    IN  (names \cap Submitted)
            \cup {Username(i) : i \in {j \in fresh : \A k \in fresh : j <= k}}

Courses == {"CS101"}
Slots == {"Mon10"}
CourseInputs == Courses
SlotInputs == Slots
AvailabilityInputs == {ArrayOf(<<>>)} \cup {ArrayOf(<<s>>) : s \in Slots}

Pending == Cardinality({b \in Agents : ~Idle(b)})

NextFor(As, nUsers, nRequests) ==
    \/ \E a \in As, u \in RegisterNames(nUsers) :
        /\ Len(users) + Pending < nUsers
        /\ RegisterBegin(a, ValidBody(u))
    \/ \E a \in As : RegisterFinish(a)
    \/ \E a \in As, u \in RegisterNames(nUsers) : Login(a, u, Password)
    \/ \E a \in As : Logout(a)
    \/ \E a \in As, c \in Courses : CoursesAdd(a, c)
    \/ \E a \in As, c \in Courses : CoursesRemove(a, c)
    \/ \E a \in As, v \in AvailabilityInputs : PostAvailability(a, v)
    \/ \E a \in As, r \in IdInputs, c \in CourseInputs, t \in SlotInputs :
        /\ Len(sessionRequests) < nRequests
        /\ SendRequest(a, r, c, t)
    \/ \E a \in As, r \in IdInputs : Accept(a, r)
    \/ \E a \in As, r \in IdInputs : Decline(a, r)
    \/ \E a \in As, r \in IdInputs : Cancel(a, r, "")

Next == NextFor({1}, MaxUsers, MaxRequests)

Spec == Init /\ [][Next]_vars

(* Every agent active, so that requests of different clients interleave:   *)
(* two registrations suspended at bcrypt.hash at once, two sessions of one *)
(* user calling accept/decline/cancel on the same request.                 *)
NextRace == NextFor(Agents, RaceUsers, MaxRequests)

SpecRace == Init /\ [][NextRace]_vars

(* Two users and a ledger that holds several requests: ids in creation       *)
(* order, repeated requests between one pair, each decided on its own.      *)
NextLedger == NextFor({1}, LedgerUsers, LedgerRequests)

SpecLedger == Init /\ [][NextLedger]_vars

(* Three users who add and remove two courses (or submit an empty or no     *)
(* course) and submit availabilities of every shape: a list, a list that    *)
(* repeats a slot, no field at all.                                         *)
MatchCourses == {"CS101", "MATH1"}

MatchCourseInputs == MatchCourses \cup {"", Undefined}

MatchAvailabilities ==
    {ArrayOf(<<"Mon10">>), ArrayOf(<<"Mon10", "Tue11">>),
     ArrayOf(<<"Mon10", "Mon10">>), NoField}

NextMatch ==
    \/ \E u \in RegisterNames(MatchUsers) :
        /\ Len(users) + Pending < MatchUsers
        /\ RegisterBegin(1, ValidBody(u))
    \/ RegisterFinish(1)
    \/ \E u \in RegisterNames(MatchUsers) : Login(1, u, Password)
    \/ \E c \in MatchCourseInputs : CoursesAdd(1, c)
    \/ \E c \in MatchCourseInputs : CoursesRemove(1, c)
    \/ \E v \in MatchAvailabilities : PostAvailability(1, v)
    \/ Dashboard(1)

SpecMatch == Init /\ [][NextMatch]_vars

(* Three users with one course, three availabilities and three majors (one *)
(* stored with a trailing blank), searched with every combination of a      *)
(* course filter, a major filter and an availability filter.                *)
SearchCourses == {"", "CS101", "MATH1"}

SearchMajors ==
    {Absent, <<" ">>, <<"c", "s">>, <<" ", "C", "s", " ">>, <<"e", "c", "e">>, <<"E">>}

SearchAvailabilities ==
    {NoField, Single("Mon10"), ArrayOf(<<"Tue11">>), ArrayOf(<<"Mon10", "Tue11">>)}

ProfileMajors == {<<"C", "S">>, <<"E", "C", "E">>, <<"c", "s", " ">>}

NextSearch ==
    \/ \E u \in RegisterNames(SearchUsers) :
        /\ Len(users) + Pending < SearchUsers
        /\ RegisterBegin(1, ValidBody(u))
    \/ RegisterFinish(1)
    \/ \E u \in RegisterNames(SearchUsers) : Login(1, u, Password)
    \/ \E m \in ProfileMajors \cup {<<>>} : PostProfile(1, <<"F", " ", "L">>, m)
    \/ \E c \in Courses : CoursesAdd(1, c)
    \/ \E v \in {ArrayOf(<<"Mon10">>), ArrayOf(<<"Mon10", "Tue11">>)} :
        PostAvailability(1, v)
    \/ \E c \in SearchCourses, m \in SearchMajors, f \in SearchAvailabilities :
        Search(1, c, m, f)

SpecSearch == Init /\ [][NextSearch]_vars

(* Search by either client after registrations that may have overlapped at  *)
(* bcrypt.hash.                                                             *)
NextSearchRace ==
    \/ \E a \in Agents, u \in RegisterNames(RaceUsers) :
        /\ Len(users) + Pending < RaceUsers
        /\ RegisterBegin(a, ValidBody(u))
    \/ \E a \in Agents : RegisterFinish(a)
    \/ \E a \in Agents, u \in RegisterNames(RaceUsers) : Login(a, u, Password)
    \/ \E a \in Agents, c \in Courses : CoursesAdd(a, c)
    \/ \E a \in Agents, c \in SearchCourses, m \in SearchMajors,
            f \in SearchAvailabilities :
        Search(a, c, m, f)

SpecSearchRace == Init /\ [][NextSearchRace]_vars

(* The ledger of SpecLedger, read through the dashboard, the sessions page  *)
(* and the requests view.                                                   *)
NextViews ==
    \/ NextLedger
    \/ Dashboard(1)
    \/ Sessions(1)
    \/ RequestsJson(1)

SpecViews == Init /\ [][NextViews]_vars

(* Three users with the courses MATH1 and ENG1 and the slots T1 and T2, one  *)
(* client that logs in as each of them in turn and opens the dashboard.     *)
ScenarioCourses == {"MATH1", "ENG1"}

ScenarioAvailabilities ==
    {ArrayOf(<<"T1">>), ArrayOf(<<"T2">>), ArrayOf(<<"T1", "T2">>)}

NextScenario ==
    \/ \E u \in RegisterNames(MatchUsers) :
        /\ Len(users) + Pending < MatchUsers
        /\ RegisterBegin(1, ValidBody(u))
    \/ RegisterFinish(1)
    \/ \E u \in RegisterNames(MatchUsers) : Login(1, u, Password)
    \/ \E c \in ScenarioCourses : CoursesAdd(1, c)
    \/ \E v \in ScenarioAvailabilities : PostAvailability(1, v)
    \/ Dashboard(1)

SpecScenario == Init /\ [][NextScenario]_vars

(* Two clients, which may be sessions of one user, changing profiles,      *)
(* courses and availability while requests are in the ledger.               *)
ProfileNames == {<<"N">>, <<>>, Absent}

ProfileMajorInputs == {<<"E", "C", "E">>, <<>>, Absent}

NextProfile ==
    \/ \E a \in Agents, u \in RegisterNames(RaceUsers) :
        /\ Len(users) + Pending < RaceUsers
        /\ RegisterBegin(a, ValidBody(u))
    \/ \E a \in Agents : RegisterFinish(a)
    \/ \E a \in Agents, u \in RegisterNames(RaceUsers) : Login(a, u, Password)
    \/ \E a \in Agents : Logout(a)
    \/ \E a \in Agents, n \in ProfileNames, m \in ProfileMajorInputs : PostProfile(a, n, m)
    \/ \E a \in Agents, c \in Courses : CoursesAdd(a, c)
    \/ \E a \in Agents, c \in Courses : CoursesRemove(a, c)
    \/ \E a \in Agents, v \in AvailabilityInputs : PostAvailability(a, v)
    \/ \E a \in Agents, r \in IdInputs, c \in CourseInputs, t \in SlotInputs :
        /\ Len(sessionRequests) < MaxRequests
        /\ SendRequest(a, r, c, t)

SpecProfile == Init /\ [][NextProfile]_vars

(* Registration and login with every kind of body: the valid ones and, for  *)
(* the first username, one body per validation that fails.  A registration  *)
(* that is refused is possible however full the store is.                   *)
ShortPassword == <<"p", "a", "s", "s", "w", "o", "r">>

OtherPassword == <<"p", "a", "s", "s", "w", "o", "r", "t">>

InvalidBodies ==
    LET ok == ValidBody(Username(1)) IN
    {[ok EXCEPT !.username = <<"a", "@gmail.com">>],
     [ok EXCEPT !.username = <<"a", "@clemson.edu", ".", "x">>],
     [ok EXCEPT !.username = Absent],
     [ok EXCEPT !.password = ShortPassword, !.confirmPassword = ShortPassword],
     [ok EXCEPT !.password = Absent, !.confirmPassword = Absent],
     [ok EXCEPT !.confirmPassword = OtherPassword],
     [ok EXCEPT !.confirmPassword = Absent],
     [ok EXCEPT !.firstName = <<>>],
     [ok EXCEPT !.lastName = Absent],
     [ok EXCEPT !.major = <<>>]}

(* Logins with a registered name, the next name (not registered yet) or no *)
(* name, and with the registration password, another one or none.          *)
LoginNames == RegisterNames(RaceUsers) \cup {Absent}

LoginPasswords == {Password, OtherPassword, Absent}

RegisterBodies(n) == {ValidBody(u) : u \in RegisterNames(n)} \cup InvalidBodies

NextRegister ==
    \/ \E a \in Agents, body \in RegisterBodies(RaceUsers) :
        /\ Len(users) + Pending < RaceUsers \/ RegisterResponse(body).status /= 302
        /\ RegisterBegin(a, body)
    \/ \E a \in Agents : RegisterFinish(a)
    \/ \E a \in Agents, u \in LoginNames, p \in LoginPasswords : Login(a, u, p)
    \/ \E a \in Agents : Logout(a)

SpecRegister == Init /\ [][NextRegister]_vars

(* One client that calls every route behind isAuthenticated, logged in or  *)
(* not: before any login, after a login that failed, after a logout.        *)
GuardSearchCourses == {"", "CS101"}

GuardSearchMajors == {Absent, <<"c", "s">>}

GuardSearchAvailabilities == {NoField, Single("Mon10")}

NextGuard ==
    \/ NextFor({1}, LedgerUsers, MaxRequests)
    \/ \E u \in RegisterNames(LedgerUsers) : Login(1, u, OtherPassword)
    \/ \E n \in ProfileNames, m \in ProfileMajorInputs : PostProfile(1, n, m)
    \/ \E c \in GuardSearchCourses, m \in GuardSearchMajors,
            f \in GuardSearchAvailabilities :
        Search(1, c, m, f)
    \/ Dashboard(1)
    \/ Sessions(1)
    \/ RequestsJson(1)
    \/ UsersJson(1)
    \/ \E page \in Pages : GetPage(1, page)

SpecGuard == Init /\ [][NextGuard]_vars

-----------------------------------------------------------------------------
(* Claims: request lifecycle *)

StatusEdges ==
    {<<"pending", "accepted">>, <<"pending", "declined">>, <<"accepted", "cancelled">>}

ActingUserId(a) == users[getCurrentUser(a)].id

RequestsWithId(n) == {i \in DOMAIN sessionRequests : sessionRequests[i].id = n}

TheRequest(n) == sessionRequests[CHOOSE i \in RequestsWithId(n) : TRUE]

WithStatus(n, status) ==
    [i \in DOMAIN sessionRequests |->
        IF sessionRequests[i].id = n
        THEN [sessionRequests[i] EXCEPT !.status = status]
        ELSE sessionRequests[i]]

RequestNotFound == Res(404, "Request not found.")
SessionNotFound == Res(404, "Session not found.")
InvalidStateNotPending == Res(400, "Request is not pending.")
InvalidStateNotAccepted == Res(400, "Only accepted sessions can be canceled.")
RecipientNotFound == Res(400, "Recipient not found.")
SelfRequest == Res(400, "Cannot send request to yourself.")
CourseNotShared == Res(400, "You must share the selected course.")
SlotNotMutuallyAvailable == Res(400, "Selected time slot is not available for both users.")
Succeeded == Redirect("/dashboard")

(* C1: in every step a request's status stays the same or moves along      *)
(* pending->accepted, pending->declined or accepted->cancelled; no request *)
(* leaves the ledger.                                                      *)
C1_StatusTransitions ==
    [][/\ Len(sessionRequests') >= Len(sessionRequests)
       /\ \A i \in DOMAIN sessionRequests :
            \/ sessionRequests'[i].status = sessionRequests[i].status
            \/ <<sessionRequests[i].status, sessionRequests'[i].status>> \in StatusEdges]_vars

C1_Witness ==
    \E i \in DOMAIN sessionRequests : sessionRequests[i].status = "cancelled"

(* The outcome the contract gives accept/decline of request number n by the *)
(* authenticated agent a: the response and the ledger afterwards.           *)
DecisionContract(a, n, notAuthorized, status) ==
    IF RequestsWithId(n) = {}
        THEN last' = RequestNotFound /\ UNCHANGED sessionRequests
    ELSE IF TheRequest(n).toUserId /= ActingUserId(a)
        THEN last' = notAuthorized /\ UNCHANGED sessionRequests
    ELSE IF TheRequest(n).status /= "pending"
        THEN last' = InvalidStateNotPending /\ UNCHANGED sessionRequests
    ELSE last' = Succeeded /\ sessionRequests' = WithStatus(n, status)

(* C2: accept (decline) by the recipient of a pending request succeeds and  *)
(* sets accepted (declined); otherwise RequestNotFound, else NotAuthorized, *)
(* else InvalidState, and the ledger is unchanged.                          *)
C2_AcceptDeclineContract ==
    [][\A a \in Agents, id \in IdInputs :
        isAuthenticated(a) =>
            /\ Accept(a, id) =>
                DecisionContract(a, ParseInt(id),
                    Res(403, "Not authorized to accept this request."), "accepted")
            /\ Decline(a, id) =>
                DecisionContract(a, ParseInt(id),
                    Res(403, "Not authorized to decline this request."), "declined")]_vars

C2_Witness ==
    /\ \E i \in DOMAIN sessionRequests : sessionRequests[i].status = "accepted"
    /\ last = Res(403, "Not authorized to decline this request.")

(* C3: cancel by a participant of an accepted request succeeds and sets     *)
(* cancelled; otherwise RequestNotFound, else NotAuthorized, else           *)
(* InvalidState, and the ledger is unchanged.                               *)
C3_CancelContract ==
    [][\A a \in Agents, id \in IdInputs :
        isAuthenticated(a) /\ Cancel(a, id, "") =>
            LET n == ParseInt(id) IN
            IF RequestsWithId(n) = {}
                THEN last' = SessionNotFound /\ UNCHANGED sessionRequests
            ELSE IF ActingUserId(a) \notin {TheRequest(n).fromUserId, TheRequest(n).toUserId}
                THEN /\ last' = Res(403, "Not authorized to cancel this session.")
                     /\ UNCHANGED sessionRequests
            ELSE IF TheRequest(n).status /= "accepted"
                THEN last' = InvalidStateNotAccepted /\ UNCHANGED sessionRequests
            ELSE last' = Succeeded /\ sessionRequests' = WithStatus(n, "cancelled")]_vars

C3_Witness ==
    /\ \E i \in DOMAIN sessionRequests : sessionRequests[i].status = "cancelled"
    /\ last = Succeeded

(* C4: sendRequest succeeds exactly when the recipient exists, is not the   *)
(* sender, both have the course and both have the slot; it then appends one *)
(* pending request from the sender to the recipient for that course and     *)
(* slot.  Otherwise the first applicable failure is reported.               *)
UsersWithId(n) == {i \in DOMAIN users : users[i].id = n}

TheUser(n) == users[CHOOSE i \in UsersWithId(n) : TRUE]

Elems(arr) == {arr[i] : i \in DOMAIN arr}

C4_SendRequestContract ==
    [][\A a \in Agents, r \in IdInputs, c \in CourseInputs, t \in SlotInputs :
        isAuthenticated(a) /\ SendRequest(a, r, c, t) =>
            LET fromUser == users[getCurrentUser(a)]
                n == ParseInt(r)
            IN  IF UsersWithId(n) = {}
                    THEN last' = RecipientNotFound /\ UNCHANGED sessionRequests
                ELSE IF TheUser(n).id = fromUser.id
                    THEN last' = SelfRequest /\ UNCHANGED sessionRequests
                ELSE IF c \notin Elems(fromUser.courses) \cap Elems(TheUser(n).courses)
                    THEN last' = CourseNotShared /\ UNCHANGED sessionRequests
                ELSE IF t \notin Elems(fromUser.availability)
                                    \cap Elems(TheUser(n).availability)
                    THEN last' = SlotNotMutuallyAvailable /\ UNCHANGED sessionRequests
                ELSE /\ last' = Succeeded
                     /\ Len(sessionRequests') = Len(sessionRequests) + 1
                     /\ SubSeq(sessionRequests', 1, Len(sessionRequests)) = sessionRequests
                     /\ LET new == sessionRequests'[Len(sessionRequests')] IN
                        /\ new.status = "pending"
                        /\ new.fromUserId = fromUser.id
                        /\ new.toUserId = n
                        /\ new.course = c
                        /\ new.timeSlot = t]_vars

C4_Witness ==
    /\ \E i \in DOMAIN sessionRequests :
        /\ sessionRequests[i].status = "pending"
        /\ sessionRequests[i].course \in Courses
        /\ sessionRequests[i].timeSlot \in Slots
    /\ last = Succeeded

(* C5 as stated: whenever the course is absent from the sender's or the     *)
(* recipient's course set, sendRequest fails with CourseNotShared, for any  *)
(* recipient id.                                                            *)
CourseAbsent(a, n, c) ==
    \/ c \notin Elems(users[getCurrentUser(a)].courses)
    \/ UsersWithId(n) /= {} /\ c \notin Elems(TheUser(n).courses)

C5_AsStated ==
    [][\A a \in Agents, r \in IdInputs, c \in CourseInputs, t \in SlotInputs :
        isAuthenticated(a) /\ SendRequest(a, r, c, t) /\ CourseAbsent(a, ParseInt(r), c)
            => last' = CourseNotShared]_vars

(* C5 amended: when the recipient exists and is not the sender, and the     *)
(* course is absent from the sender's or the recipient's course set,        *)
(* sendRequest fails with CourseNotShared, for any time slot; for any       *)
(* recipient id it fails and adds no request.                               *)
C5_CourseNotShared ==
    [][\A a \in Agents, r \in IdInputs, c \in CourseInputs, t \in SlotInputs :
        isAuthenticated(a) /\ SendRequest(a, r, c, t) /\ CourseAbsent(a, ParseInt(r), c)
            => /\ last' \in {RecipientNotFound, SelfRequest, CourseNotShared}
               /\ UNCHANGED sessionRequests
               /\ (UsersWithId(ParseInt(r)) /= {} /\ ParseInt(r) /= ActingUserId(a))
                    => last' = CourseNotShared]_vars

C5_Witness ==
    /\ last = CourseNotShared
    /\ \E i, j \in DOMAIN users :
        /\ i /= j
        /\ "CS101" \in Elems(users[i].courses)
        /\ "CS101" \notin Elems(users[j].courses)
        /\ "Mon10" \in Elems(users[i].availability) \cap Elems(users[j].availability)

(* C8: a failing sendRequest, accept, decline or cancel changes neither the *)
(* user store, the ledger, the id counters nor any session.                 *)
Failed(res) == res.status \in {400, 403, 404}

C8_FailureLeavesState ==
    [][\/ UNCHANGED <<users, nextUserId, sessionRequests, nextRequestId, session, hashing>>
       \/ ~Failed(last')
       \/ ~\E a \in Agents, id \in IdInputs :
            \/ Accept(a, id) \/ Decline(a, id) \/ Cancel(a, id, "")
            \/ \E c \in CourseInputs, t \in SlotInputs : SendRequest(a, id, c, t)]_vars

C8_Witness ==
    /\ \E i \in DOMAIN sessionRequests : sessionRequests[i].status = "pending"
    /\ last = Res(403, "Not authorized to accept this request.")

(* C9: accept or decline by the recipient of a request that was already     *)
(* accepted or declined fails with InvalidState and leaves the ledger.      *)
C9_SecondDecisionFails ==
    [][\A a \in Agents, id \in IdInputs :
        /\ isAuthenticated(a)
        /\ RequestsWithId(ParseInt(id)) /= {}
        /\ TheRequest(ParseInt(id)).toUserId = ActingUserId(a)
        /\ TheRequest(ParseInt(id)).status \in {"accepted", "declined"}
        /\ (Accept(a, id) \/ Decline(a, id))
        => last' = InvalidStateNotPending /\ UNCHANGED sessionRequests]_vars

C9_Witness ==
    /\ \E i \in DOMAIN sessionRequests : sessionRequests[i].status = "declined"
    /\ last = InvalidStateNotPending

(* C10: cancel of an existing request by a user who is neither its sender   *)
(* nor its recipient fails with NotAuthorized whatever the status, and      *)
(* leaves the ledger.                                                       *)
C10_NonParticipantCancel ==
    [][\A a \in Agents, id \in IdInputs :
        /\ isAuthenticated(a)
        /\ RequestsWithId(ParseInt(id)) /= {}
        /\ ActingUserId(a) \notin {TheRequest(ParseInt(id)).fromUserId,
                                   TheRequest(ParseInt(id)).toUserId}
        /\ Cancel(a, id, "")
        => /\ last' = Res(403, "Not authorized to cancel this session.")
           /\ UNCHANGED sessionRequests]_vars

C10_Witness ==
    /\ \E i \in DOMAIN sessionRequests : sessionRequests[i].status = "accepted"
    /\ last = Res(403, "Not authorized to cancel this session.")

(* C11: cancel of a pending request by its sender or its recipient fails    *)
(* with InvalidState, and the request stays pending.                        *)
C11_CancelPendingFails ==
    [][\A a \in Agents, id \in IdInputs :
        /\ isAuthenticated(a)
        /\ RequestsWithId(ParseInt(id)) /= {}
        /\ ActingUserId(a) \in {TheRequest(ParseInt(id)).fromUserId,
                                TheRequest(ParseInt(id)).toUserId}
        /\ TheRequest(ParseInt(id)).status = "pending"
        /\ Cancel(a, id, "")
        => /\ last' = InvalidStateNotAccepted
           /\ UNCHANGED sessionRequests]_vars

C11_Witness ==
    /\ \E i \in DOMAIN sessionRequests : sessionRequests[i].status = "pending"
    /\ last = InvalidStateNotAccepted

(* C34: a request becomes accepted or declined only from pending and only  *)
(* in an accept or decline step of a session whose user is its recipient    *)
(* (never its sender), and becomes cancelled only from accepted and only in *)
(* a cancel step of a session whose user is its sender or its recipient; a  *)
(* request that is accepted or declined was decided so once, and one that   *)
(* is cancelled was accepted before.                                        *)
ActsOn(a, id, r) == isAuthenticated(a) /\ ParseInt(id) = r.id

C34_StatusProvenance ==
    [][/\ \A i \in DOMAIN sessionRequests :
            sessionRequests'[i].status /= sessionRequests[i].status =>
                LET r == sessionRequests[i]
                    to == sessionRequests'[i].status
                IN  CASE to = "accepted" ->
                            /\ r.status = "pending"
                            /\ \E a \in Agents, id \in IdInputs :
                                    /\ ActsOn(a, id, r) /\ Accept(a, id)
                                    /\ ActingUserId(a) = r.toUserId
                                    /\ ActingUserId(a) /= r.fromUserId
                      [] to = "declined" ->
                            /\ r.status = "pending"
                            /\ \E a \in Agents, id \in IdInputs :
                                    /\ ActsOn(a, id, r) /\ Decline(a, id)
                                    /\ ActingUserId(a) = r.toUserId
                      [] to = "cancelled" ->
                            /\ r.status = "accepted"
                            /\ \E a \in Agents, id \in IdInputs :
                                    /\ ActsOn(a, id, r) /\ Cancel(a, id, "")
                                    /\ ActingUserId(a) \in {r.fromUserId, r.toUserId}
                      [] OTHER -> FALSE
       /\ \A i \in DOMAIN sessionRequests' :
            /\ sessionRequests'[i].status \in {"accepted", "declined"}
                    => decided'[i] = <<sessionRequests'[i].status>>
            /\ sessionRequests'[i].status = "cancelled" => decided'[i] = <<"accepted">>]_vars

C34_Witness ==
    /\ Len(users) = 3
    /\ getCurrentUser(1) = 3
    /\ \E i \in DOMAIN sessionRequests :
        /\ sessionRequests[i].status = "cancelled"
        /\ ActingUserId(1) \notin {sessionRequests[i].fromUserId, sessionRequests[i].toUserId}
    /\ last = Res(403, "Not authorized to cancel this session.")

(* C35: removing a course or replacing an availability leaves every        *)
(* request of the ledger as it is; a request whose course or slot its       *)
(* sender and recipient no longer share is still accepted or declined by    *)
(* its recipient while pending, and cancelled by either of them while       *)
(* accepted.                                                                *)
NoLongerValid(r) ==
    \/ r.course \notin Elems(TheUser(r.fromUserId).courses)
                            \cap Elems(TheUser(r.toUserId).courses)
    \/ r.timeSlot \notin Elems(TheUser(r.fromUserId).availability)
                            \cap Elems(TheUser(r.toUserId).availability)

C35_ChecksOnlyAtCreation ==
    [][\A a \in Agents :
        /\ \A c \in Courses : CoursesRemove(a, c) => UNCHANGED sessionRequests
        /\ \A v \in AvailabilityInputs : PostAvailability(a, v) => UNCHANGED sessionRequests
        /\ \A id \in IdInputs :
            (/\ isAuthenticated(a)
             /\ RequestsWithId(ParseInt(id)) /= {}
             /\ NoLongerValid(TheRequest(ParseInt(id)))) =>
                LET r == TheRequest(ParseInt(id))
                    n == ParseInt(id)
                IN  /\ (r.status = "pending" /\ r.toUserId = ActingUserId(a) /\ Accept(a, id))
                        => last' = Succeeded /\ sessionRequests' = WithStatus(n, "accepted")
                    /\ (r.status = "pending" /\ r.toUserId = ActingUserId(a) /\ Decline(a, id))
                        => last' = Succeeded /\ sessionRequests' = WithStatus(n, "declined")
                    /\ (r.status = "accepted" /\ ActingUserId(a) \in {r.fromUserId, r.toUserId}
                            /\ Cancel(a, id, ""))
                        => last' = Succeeded /\ sessionRequests' = WithStatus(n, "cancelled")]_vars

C35_Witness ==
    /\ Len(sessionRequests) = 1
    /\ sessionRequests[1].status = "accepted"
    /\ sessionRequests[1].course = "CS101"
    /\ sessionRequests[1].timeSlot = "Mon10"
    /\ TheUser(sessionRequests[1].fromUserId).courses = <<>>
    /\ TheUser(sessionRequests[1].toUserId).availability = <<>>
    /\ ActingUserId(1) = sessionRequests[1].toUserId
    /\ last = Succeeded

-----------------------------------------------------------------------------
(* Claims: registration *)

NonEmpty(s) == s \notin {<<>>, Absent}

StoredUsernames == {users[i].username : i \in DOMAIN users}

AllValid(body) ==
    /\ EndsWith(body.username, ClemsonSuffix)
    /\ Len(body.password) >= 8
    /\ body.password = body.confirmPassword
    /\ body.username \notin StoredUsernames
    /\ NonEmpty(body.firstName) /\ NonEmpty(body.lastName) /\ NonEmpty(body.major)

(* C12: a registration whose body fails a validation is answered with an    *)
(* error and changes neither the user store nor the next user id nor starts *)
(* an insert; one whose body passes them all is the only thing that starts  *)
(* an insert, and the insert appends the record of that body under the next *)
(* user id.  Every stored username ends with @clemson.edu.                  *)
C12_RegistrationValidated ==
    [][/\ \A a \in Agents, body \in RegisterBodies(RaceUsers) :
            RegisterBegin(a, body) =>
                /\ UNCHANGED <<users, nextUserId>>
                /\ IF AllValid(body)
                   THEN /\ hashing'[a] /= <<>>
                        /\ hashing'[a][1].username = body.username
                   ELSE /\ last'.status \in {400, 500}
                        /\ UNCHANGED hashing
       /\ users' /= users =>
            \E a \in Agents :
                /\ hashing[a] /= <<>>
                /\ hashing'[a] = <<>>
                /\ Len(users') = Len(users) + 1
                /\ SubSeq(users', 1, Len(users)) = users
                /\ users'[Len(users')].username = hashing[a][1].username
                /\ users'[Len(users')].id = nextUserId
                /\ nextUserId' = nextUserId + 1
       /\ \A i \in DOMAIN users' : EndsWith(users'[i].username, ClemsonSuffix)]_vars

C12_Witness ==
    /\ Len(users) = 1
    /\ nextUserId = 2
    /\ last = Res(400, "First name, last name, and major are required.")

(* C32: a login authenticates the session only when a record with the       *)
(* submitted username holds the submitted password as given at             *)
(* registration, and the session is then that user's; a login with an      *)
(* unknown username or a wrong (or no) password is answered with a failure  *)
(* and leaves the session as it was, an unauthenticated one unauthenticated; *)
(* no login changes the user store, the ledger or the counters.             *)
RegisteredWith(username, password) ==
    \E i \in DOMAIN users :
        users[i].username = username /\ users[i].password = BcryptHash(password)

C32_LoginContract ==
    [][\A a \in Agents, u \in LoginNames, p \in LoginPasswords :
        Login(a, u, p) =>
            /\ UNCHANGED <<users, nextUserId, sessionRequests, nextRequestId>>
            /\ (last' = Redirect("/dashboard") \/ session'[a] /= session[a])
                    => /\ RegisteredWith(u, p)
                       /\ isAuthenticated(a)'
                       /\ users[getCurrentUser(a)'].username = u
            /\ ~RegisteredWith(u, p)
                    => /\ last' \in {Res(400, "Invalid credentials."),
                                     Res(500, "Error logging in.")}
                       /\ UNCHANGED session
                       /\ ~isAuthenticated(a) => ~isAuthenticated(a)']_vars

C32_Witness ==
    /\ Len(users) = 1
    /\ ~isAuthenticated(1)
    /\ isAuthenticated(2)
    /\ last = Res(400, "Invalid credentials.")

-----------------------------------------------------------------------------
(* Claims: the ledger's records *)

UserIds == {users[i].id : i \in DOMAIN users}

(* C13: no request of the ledger has its sender as its recipient. *)
C13_NoSelfRequest ==
    \A i \in DOMAIN sessionRequests :
        sessionRequests[i].fromUserId /= sessionRequests[i].toUserId

C13_Witness ==
    /\ Len(sessionRequests) = 2
    /\ sessionRequests[1].fromUserId = sessionRequests[2].toUserId
    /\ sessionRequests[1].toUserId = sessionRequests[2].fromUserId

(* C14: the sender and the recipient of every request of the ledger are ids *)
(* of records of the user store.                                            *)
C14_ParticipantsExist ==
    \A i \in DOMAIN sessionRequests :
        /\ sessionRequests[i].fromUserId \in UserIds
        /\ sessionRequests[i].toUserId \in UserIds

C14_Witness ==
    /\ Len(sessionRequests) = 2
    /\ sessionRequests[1].fromUserId = 1 /\ sessionRequests[1].toUserId = 2
    /\ sessionRequests[2].status = "declined"

(* C15: the requests of the ledger, which holds them in creation order,     *)
(* have strictly increasing ids (so no two share one), all below the next   *)
(* id to be given.                                                          *)
C15_RequestIdsIncrease ==
    /\ \A i, j \in DOMAIN sessionRequests :
            i < j => sessionRequests[i].id < sessionRequests[j].id
    /\ \A i \in DOMAIN sessionRequests : sessionRequests[i].id < nextRequestId

C15_Witness ==
    /\ Len(sessionRequests) = 2
    /\ sessionRequests[1].status = "cancelled"
    /\ sessionRequests[2].status = "pending"

(* C17: no step removes or reorders a request or changes a request's id,   *)
(* fromUserId, toUserId, course, timeSlot or createdAt; a step that changes *)
(* a request is an accept, a decline or a cancel.                           *)
SameButStatus(r1, r2) == [r1 EXCEPT !.status = r2.status] = r2

C17_LedgerAppendOnly ==
    [][/\ Len(sessionRequests') >= Len(sessionRequests)
       /\ \A i \in DOMAIN sessionRequests :
            SameButStatus(sessionRequests[i], sessionRequests'[i])
       /\ (\E i \in DOMAIN sessionRequests : sessionRequests'[i] /= sessionRequests[i])
            => \E a \in Agents, id \in IdInputs :
                    Accept(a, id) \/ Decline(a, id) \/ Cancel(a, id, "")]_vars

C17_Witness ==
    /\ Len(sessionRequests) = 2
    /\ sessionRequests[1].status = "cancelled"
    /\ sessionRequests[2].status = "declined"
    /\ sessionRequests[1].createdAt /= sessionRequests[2].createdAt

(* C18: a valid sendRequest succeeds and appends a new pending request with *)
(* a fresh id also when a pending request with the same sender, recipient,  *)
(* course and slot is in the ledger; accept or decline of a pending request *)
(* by its recipient succeeds whatever the other requests are, and changes   *)
(* no other request.                                                        *)
Twins(i, j) ==
    /\ i /= j
    /\ sessionRequests[i].fromUserId = sessionRequests[j].fromUserId
    /\ sessionRequests[i].toUserId = sessionRequests[j].toUserId
    /\ sessionRequests[i].course = sessionRequests[j].course
    /\ sessionRequests[i].timeSlot = sessionRequests[j].timeSlot

PendingTwin(a, n, c, t) ==
    \E i \in DOMAIN sessionRequests :
        /\ sessionRequests[i].fromUserId = ActingUserId(a)
        /\ sessionRequests[i].toUserId = n
        /\ sessionRequests[i].course = c
        /\ sessionRequests[i].timeSlot = t
        /\ sessionRequests[i].status = "pending"

C18_NoDeduplication ==
    [][/\ \A a \in Agents, r \in IdInputs, c \in CourseInputs, t \in SlotInputs :
            /\ isAuthenticated(a)
            /\ PendingTwin(a, ParseInt(r), c, t)
            /\ c \in Elems(users[getCurrentUser(a)].courses)
                        \cap Elems(TheUser(ParseInt(r)).courses)
            /\ t \in Elems(users[getCurrentUser(a)].availability)
                        \cap Elems(TheUser(ParseInt(r)).availability)
            /\ SendRequest(a, r, c, t)
            => /\ last' = Succeeded
               /\ Len(sessionRequests') = Len(sessionRequests) + 1
               /\ SubSeq(sessionRequests', 1, Len(sessionRequests)) = sessionRequests
               /\ LET new == sessionRequests'[Len(sessionRequests')] IN
                    /\ new.status = "pending"
                    /\ RequestsWithId(new.id) = {}
                    /\ PendingTwin(a, ParseInt(r), c, t)'
       /\ \A a \in Agents, id \in IdInputs, i, j \in DOMAIN sessionRequests :
            /\ isAuthenticated(a)
            /\ Twins(i, j)
            /\ sessionRequests[i].id = ParseInt(id)
            /\ sessionRequests[i].toUserId = ActingUserId(a)
            /\ sessionRequests[i].status = "pending"
            /\ (Accept(a, id) \/ Decline(a, id))
            => /\ last' = Succeeded
               /\ sessionRequests'[i].status \in {"accepted", "declined"}
               /\ sessionRequests'[j] = sessionRequests[j]]_vars

C18_Witness ==
    /\ Len(sessionRequests) = 2
    /\ Twins(1, 2)
    /\ sessionRequests[1].status = "declined"
    /\ sessionRequests[2].status = "accepted"

-----------------------------------------------------------------------------
(* Claims: suggested matches *)

SharedCourseSet(u1, u2) == Elems(u1.courses) \cap Elems(u2.courses)

SharedSlotSet(u1, u2) == Elems(u1.availability) \cap Elems(u2.availability)

PositionOfId(n) == CHOOSE j \in DOMAIN users : users[j].id = n

(* C19: for every user of the store, the suggested matches hold no entry   *)
(* for the user, hold exactly one entry for each other user whose shared   *)
(* courses and overlapping availability are both non-empty and no entry    *)
(* for anyone else, and are ordered by descending score, entries of equal  *)
(* score in the order of the user store.                                   *)
C19_SuggestedMatches ==
    \A i \in DOMAIN users :
        LET self == users[i]
            M == suggestedMatches(self)
        IN  /\ \A p \in DOMAIN M : M[p].id /= self.id
            /\ \A p \in DOMAIN M :
                    /\ UsersWithId(M[p].id) /= {}
                    /\ SharedCourseSet(self, TheUser(M[p].id)) /= {}
                    /\ SharedSlotSet(self, TheUser(M[p].id)) /= {}
            /\ \A j \in DOMAIN users :
                    (j /= i /\ SharedCourseSet(self, users[j]) /= {}
                            /\ SharedSlotSet(self, users[j]) /= {})
                        => Cardinality({p \in DOMAIN M : M[p].id = users[j].id}) = 1
            /\ \A p, q \in DOMAIN M :
                    p < q =>
                        \/ M[p].score > M[q].score
                        \/ /\ M[p].score = M[q].score
                           /\ PositionOfId(M[p].id) < PositionOfId(M[q].id)

C19_Witness ==
    /\ last = Res(200, "dashboard")
    /\ getCurrentUser(1) = 1
    /\ Len(users) = 3
    /\ LET M == suggestedMatches(users[1]) IN
        /\ Len(M) = 2
        /\ M[1].id = 3 /\ M[2].id = 2
        /\ M[1].score > M[2].score
    /\ Len(suggestedMatches(users[2])) = 1

(* C20: the score of every suggested match is the number of courses the two *)
(* users share plus the number of slots their availabilities share.         *)
C20_ScoreIsSetCardinality ==
    \A i \in DOMAIN users :
        LET self == users[i]
            M == suggestedMatches(self)
        IN  \A p \in DOMAIN M :
                M[p].score = Cardinality(SharedCourseSet(self, TheUser(M[p].id)))
                                + Cardinality(SharedSlotSet(self, TheUser(M[p].id)))

-----------------------------------------------------------------------------
(* Claims: courses and availability *)

NoDuplicates(arr) == \A p, q \in DOMAIN arr : arr[p] = arr[q] => p = q

(* C21: for any two users of the store, the shared courses computed for     *)
(* (A, B) and for (B, A), on the dashboard and in search, are the same set, *)
(* the intersection of the two users' courses, and list no course twice.    *)
C21_SharedCoursesSymmetric ==
    \A i, j \in DOMAIN users :
        /\ Elems(mutualCourses(users[i], users[j])) = SharedCourseSet(users[i], users[j])
        /\ Elems(mutualCourses(users[i], users[j])) = Elems(mutualCourses(users[j], users[i]))
        /\ Elems(sharedCourses(users[i], users[j])) = SharedCourseSet(users[i], users[j])
        /\ Elems(sharedCourses(users[i], users[j])) = Elems(sharedCourses(users[j], users[i]))
        /\ NoDuplicates(mutualCourses(users[i], users[j]))
        /\ NoDuplicates(sharedCourses(users[i], users[j]))

C21_Witness ==
    /\ Len(users) = 3
    /\ users[1].courses = <<"CS101", "MATH1">>
    /\ users[2].courses = <<"MATH1", "CS101">>
    /\ users[3].courses = <<"MATH1">>
    /\ mutualCourses(users[1], users[2]) /= mutualCourses(users[2], users[1])
    /\ last = Redirect("/courses")

(* C22: no user's courses hold a course twice; adding a course that is      *)
(* present, empty or missing leaves the courses as they are, adding another *)
(* one appends it, and after removing a course the courses do not hold it   *)
(* and hold every other course as before.                                   *)
C22_CoursesNoDuplicates ==
    [][/\ \A i \in DOMAIN users' : NoDuplicates(users'[i].courses)
       /\ \A c \in MatchCourseInputs :
            isAuthenticated(1) /\ CoursesAdd(1, c) =>
                LET before == users[getCurrentUser(1)].courses
                    after == users'[getCurrentUser(1)].courses
                IN  IF c \in Elems(before) \/ c \in {"", Undefined}
                    THEN users' = users
                    ELSE after = Append(before, c)
       /\ \A c \in MatchCourseInputs :
            isAuthenticated(1) /\ CoursesRemove(1, c) =>
                LET before == users[getCurrentUser(1)].courses
                    after == users'[getCurrentUser(1)].courses
                IN  /\ c \notin Elems(after)
                    /\ Elems(after) = Elems(before) \ {c}]_vars

C22_Witness ==
    /\ Len(users) = 2
    /\ users[1].courses = <<"MATH1">>
    /\ users[2].courses = <<"MATH1", "CS101">>
    /\ getCurrentUser(1) = 2
    /\ last = Redirect("/courses")

(* C38: for the courses of every user and every course c not among them    *)
(* (also an empty or missing c), adding c and then removing c gives the     *)
(* courses as they were, in the same order; for every c, adding c twice     *)
(* gives what adding it once gives.                                         *)
C38_AddRemoveRoundTrip ==
    \A i \in DOMAIN users :
        \A c \in MatchCourseInputs :
            /\ c \notin Elems(users[i].courses)
                    => RemoveCourse(AddCourse(users[i].courses, c), c) = users[i].courses
            /\ AddCourse(AddCourse(users[i].courses, c), c) = AddCourse(users[i].courses, c)

C38_Witness ==
    /\ Len(users) = 2
    /\ getCurrentUser(1) = 2
    /\ users[2].courses = <<"MATH1">>
    /\ users[1].courses = <<"CS101", "MATH1">>
    /\ AddCourse(users[2].courses, "CS101") = <<"MATH1", "CS101">>
    /\ RemoveCourse(<<"MATH1", "CS101">>, "CS101") = users[2].courses
    /\ last = Redirect("/courses")

(* C23: set-availability stores exactly the submitted slots: those of a     *)
(* list, the one slot of a single string, none for a submission without a   *)
(* slot.                                                                    *)
SubmittedSlots(availability) ==
    IF availability = NoField THEN {} ELSE Elems(availability.value)

C23_AvailabilityIsSubmittedSet ==
    [][\A v \in MatchAvailabilities :
        isAuthenticated(1) /\ PostAvailability(1, v) =>
            /\ Elems(users'[getCurrentUser(1)].availability) = SubmittedSlots(v)
            /\ \A i \in DOMAIN users : i /= getCurrentUser(1) => users'[i] = users[i]]_vars

-----------------------------------------------------------------------------
(* Claims: search *)

(* A search has just been answered *)
Searched == last = Res(200, "search")

(* The ids of the results of the search of agent a's user *)
SearchIds(a, c, m, f) ==
    LET results == SearchResults(users[getCurrentUser(a)], c, m, f)
    IN  {results[k].id : k \in DOMAIN results}

OtherUsers(a) == {j \in DOMAIN users : j /= getCurrentUser(a)}

CourseGiven(c) == c \notin {"", Undefined}

MajorGiven(m) == m /= Absent /\ \E k \in DOMAIN m : m[k] \notin WhiteSpace

FilterSlots(f) == IF f = NoField THEN {} ELSE Elems(f.value)

CaselessEqual(x, y) ==
    /\ Len(x) = Len(y)
    /\ \A k \in DOMAIN x : ToLowerChar(x[k]) = ToLowerChar(y[k])

(* C24: no search returns the searching user; a search by course alone      *)
(* returns exactly the other users whose courses hold the course, and the   *)
(* major and availability filters only take results away from those.        *)
C24_SearchByCourse ==
    \A a \in Agents : Searched /\ isAuthenticated(a) =>
        \A c \in SearchCourses :
            LET byCourse == SearchIds(a, c, Absent, NoField) IN
            /\ CourseGiven(c) =>
                byCourse = {users[j].id :
                                j \in {k \in OtherUsers(a) : c \in Elems(users[k].courses)}}
            /\ \A m \in SearchMajors, f \in SearchAvailabilities :
                /\ users[getCurrentUser(a)].id \notin SearchIds(a, c, m, f)
                /\ SearchIds(a, c, m, f) \subseteq byCourse

C24_Witness ==
    /\ last = Res(200, "search")
    /\ Len(users) = 3
    /\ getCurrentUser(1) = 2
    /\ users[2].courses = <<>>
    /\ SearchIds(1, "CS101", Absent, NoField) = {3}

(* C25: with a major filter that is not blank, a search keeps exactly the   *)
(* results of the same search without it whose major equals the trimmed     *)
(* filter up to letter case; a blank or missing filter keeps them all.      *)
C25_SearchByMajor ==
    \A a \in Agents : Searched /\ isAuthenticated(a) =>
        \A c \in SearchCourses, f \in SearchAvailabilities :
            LET unfiltered == SearchIds(a, c, Absent, f) IN
            \A m \in SearchMajors :
                SearchIds(a, c, m, f) =
                    IF MajorGiven(m)
                    THEN {id \in unfiltered : CaselessEqual(TheUser(id).major, Trim(m))}
                    ELSE unfiltered

C25_Witness ==
    /\ last = Res(200, "search")
    /\ Len(users) = 3
    /\ getCurrentUser(1) = 1
    /\ users[2].major = <<"C", "S">>
    /\ users[3].major = <<"E", "C", "E">>
    /\ SearchIds(1, "", <<"c", "s">>, NoField) = {2}
    /\ SearchIds(1, "", <<" ", "C", "s", " ">>, NoField) = {2}
    /\ SearchIds(1, "", <<"E">>, NoField) = {}

(* C26: with an availability filter of one or more slots, a search keeps    *)
(* exactly the results of the same search without it for whom some slot is  *)
(* in the searching user's availability, in the candidate's and in the      *)
(* filter.                                                                  *)
C26_SearchByAvailability ==
    \A a \in Agents : Searched /\ isAuthenticated(a) =>
        \A c \in SearchCourses, m \in SearchMajors :
            LET unfiltered == SearchIds(a, c, m, NoField) IN
            \A f \in SearchAvailabilities :
                SearchIds(a, c, m, f) =
                    IF FilterSlots(f) /= {}
                    THEN {id \in unfiltered :
                            SharedSlotSet(users[getCurrentUser(a)], TheUser(id))
                                \cap FilterSlots(f) /= {}}
                    ELSE unfiltered

C26_Witness ==
    /\ last = Res(200, "search")
    /\ Len(users) = 3
    /\ getCurrentUser(1) = 1
    /\ users[1].availability = <<"Mon10", "Tue11">>
    /\ users[2].availability = <<"Mon10">>
    /\ users[3].availability = <<"Mon10", "Tue11">>
    /\ SearchIds(1, "CS101", <<"c", "s">>, NoField) = {2, 3}
    /\ SearchIds(1, "CS101", <<"c", "s">>, ArrayOf(<<"Tue11">>)) = {3}

(* C27: the results of every search list their candidates in the order of  *)
(* the user store, each once, and a search without any filter returns every *)
(* other user of the store.                                                 *)
C27_SearchOrderAndCoverage ==
    \A a \in Agents : Searched /\ isAuthenticated(a) =>
        /\ \A c \in SearchCourses, m \in SearchMajors, f \in SearchAvailabilities :
            LET results == SearchResults(users[getCurrentUser(a)], c, m, f) IN
            \A p, q \in DOMAIN results :
                p < q => PositionOfId(results[p].id) < PositionOfId(results[q].id)
        /\ SearchIds(a, "", Absent, NoField) = {users[j].id : j \in OtherUsers(a)}

-----------------------------------------------------------------------------
(* Claims: views of the ledger *)

Ledger == Elems(sessionRequests)

Involving(u) == {r \in Ledger : r.fromUserId = u.id \/ r.toUserId = u.id}

InCreationOrder(list) == \A p, q \in DOMAIN list : p < q => list[p].id < list[q].id

-----------------------------------------------------------------------------
(* Claims: scenarios *)

HasOnly(u, course, slot) == u.courses = <<course>> /\ u.availability = <<slot>>

(* The request with id n goes from the acting user's partner to the acting *)
(* user (agent 1), for CS101 at Mon10, and has the given status             *)
ScenarioRequest(n, status) ==
    /\ RequestsWithId(n) /= {}
    /\ TheRequest(n).toUserId = ActingUserId(1)
    /\ TheRequest(n).course = "CS101"
    /\ TheRequest(n).timeSlot = "Mon10"
    /\ TheRequest(n).status = status

(* C30: with A and B both having courses {CS101} and availability {Mon10},  *)
(* B's sendRequest to A for CS101/Mon10 appends a pending request from B to *)
(* A; accept by A makes that request accepted; cancel by A then makes it    *)
(* cancelled; a further cancel by A fails with InvalidState and leaves it   *)
(* cancelled.                                                               *)
C30_Scenario ==
    [][/\ isAuthenticated(1) =>
        \A id \in IdInputs :
            /\ ( /\ UsersWithId(ParseInt(id)) /= {}
                 /\ ParseInt(id) /= ActingUserId(1)
                 /\ HasOnly(TheUser(ParseInt(id)), "CS101", "Mon10")
                 /\ HasOnly(users[getCurrentUser(1)], "CS101", "Mon10")
                 /\ SendRequest(1, id, "CS101", "Mon10") )
                => /\ last' = Succeeded
                   /\ Len(sessionRequests') = Len(sessionRequests) + 1
                   /\ LET new == sessionRequests'[Len(sessionRequests')] IN
                        /\ new.status = "pending"
                        /\ new.fromUserId = ActingUserId(1)
                        /\ new.toUserId = ParseInt(id)
            /\ (ScenarioRequest(ParseInt(id), "pending") /\ Accept(1, id))
                => last' = Succeeded /\ ScenarioRequest(ParseInt(id), "accepted")'
            /\ (ScenarioRequest(ParseInt(id), "accepted") /\ Cancel(1, id, ""))
                => last' = Succeeded /\ ScenarioRequest(ParseInt(id), "cancelled")'
            /\ (ScenarioRequest(ParseInt(id), "cancelled") /\ Cancel(1, id, ""))
                => /\ last' = InvalidStateNotAccepted
                   /\ UNCHANGED sessionRequests]_vars

C30_Witness ==
    /\ Len(users) >= 2
    /\ HasOnly(users[1], "CS101", "Mon10")
    /\ HasOnly(users[2], "CS101", "Mon10")
    /\ getCurrentUser(1) = 1
    /\ Len(sessionRequests) = 1
    /\ sessionRequests[1].fromUserId = 2
    /\ ScenarioRequest(1, "cancelled")
    /\ last = InvalidStateNotAccepted

(* C31: with A, B, C registered in this order, A having courses {MATH1,     *)
(* ENG1} and availability {T1, T2}, B courses {MATH1} and availability {T1}, *)
(* C courses {ENG1} and availability {T2}, the suggested matches of A are B *)
(* then C, each with score 2.                                               *)
MatchScenario ==
    /\ Len(users) = 3
    /\ Elems(users[1].courses) = {"MATH1", "ENG1"}
    /\ users[1].availability = <<"T1", "T2">>
    /\ HasOnly(users[2], "MATH1", "T1")
    /\ HasOnly(users[3], "ENG1", "T2")

C31_MatchScenario ==
    MatchScenario =>
        LET M == suggestedMatches(users[1]) IN
        /\ Len(M) = 2
        /\ M[1].id = users[2].id /\ M[1].score = 2
        /\ M[2].id = users[3].id /\ M[2].score = 2

C31_Witness ==
    /\ MatchScenario
    /\ users[1].courses = <<"MATH1", "ENG1">>
    /\ getCurrentUser(1) = 1
    /\ last = Res(200, "dashboard")

-----------------------------------------------------------------------------
(* Claims: sessions and the user store *)

SameUser(a, b) == isAuthenticated(a) /\ session[a] = session[b]

(* C33: no step removes a user record or changes a record's username or id; *)
(* the current user of every authenticated session is a record of the store *)
(* with the username that logged in, the same record for as long as the     *)
(* session lasts; and after a profile, course or availability change made   *)
(* through one session, the record that any session of that user resolves   *)
(* shows the change.                                                        *)
C33_CurrentUserIsLive ==
    [][/\ Len(users') >= Len(users)
       /\ \A i \in DOMAIN users :
            users'[i].username = users[i].username /\ users'[i].id = users[i].id
       /\ \A a \in Agents :
            isAuthenticated(a)' =>
                /\ getCurrentUser(a)' /= 0
                /\ users'[getCurrentUser(a)'].username = session'[a][1]
                /\ session'[a] = session[a] => getCurrentUser(a)' = getCurrentUser(a)
       /\ \A a, b \in Agents :
            SameUser(a, b) =>
                LET seen == users'[getCurrentUser(b)'] IN
                /\ \A n \in ProfileNames, m \in ProfileMajorInputs :
                        PostProfile(a, n, m) /\ Truthy(n) /\ Truthy(m)
                            => seen.name = n /\ seen.major = m
                /\ \A c \in Courses : CoursesAdd(a, c) => c \in Elems(seen.courses)
                /\ \A c \in Courses : CoursesRemove(a, c) => c \notin Elems(seen.courses)
                /\ \A v \in AvailabilityInputs :
                        PostAvailability(a, v) => seen.availability = v.value]_vars

C33_Witness ==
    /\ isAuthenticated(1)
    /\ session[2] = session[1]
    /\ Len(users) = 2
    /\ users[getCurrentUser(2)].name = <<"N">>
    /\ users[getCurrentUser(2)].courses = <<"CS101">>
    /\ users[getCurrentUser(2)].availability = <<"Mon10">>
    /\ last = Redirect("/profile")

(* C36: a profile update, add-course, remove-course or set-availability by *)
(* an authenticated session leaves every record but the acting user's as it *)
(* is, leaves the acting user's id, username and password, adds and removes *)
(* no record, and leaves the ledger, the counters and the sessions; a       *)
(* profile update without a name or without a major changes nothing.        *)
OnlyActingUserChanged(a) ==
    /\ Len(users') = Len(users)
    /\ \A j \in DOMAIN users : j /= getCurrentUser(a) => users'[j] = users[j]
    /\ users'[getCurrentUser(a)].id = users[getCurrentUser(a)].id
    /\ users'[getCurrentUser(a)].username = users[getCurrentUser(a)].username
    /\ users'[getCurrentUser(a)].password = users[getCurrentUser(a)].password
    /\ UNCHANGED <<sessionRequests, nextUserId, nextRequestId, session>>

C36_ProfileFrame ==
    [][\A a \in Agents :
        isAuthenticated(a) =>
            /\ \A n \in ProfileNames, m \in ProfileMajorInputs :
                    PostProfile(a, n, m) =>
                        /\ OnlyActingUserChanged(a)
                        /\ (~Truthy(n) \/ ~Truthy(m)) =>
                                /\ UNCHANGED users
                                /\ last' = Res(400, "Name and major are required.")
            /\ \A c \in Courses :
                    CoursesAdd(a, c) \/ CoursesRemove(a, c) => OnlyActingUserChanged(a)
            /\ \A v \in AvailabilityInputs :
                    PostAvailability(a, v) => OnlyActingUserChanged(a)]_vars

C36_Witness ==
    /\ Len(users) = 2
    /\ Len(sessionRequests) = 1
    /\ getCurrentUser(1) = 2
    /\ users[2].name = <<"N">>
    /\ users[1].name = <<"F", " ", "L">>
    /\ users[1].courses = <<"CS101">>
    /\ users[2].courses = <<>>
    /\ last = Res(400, "Name and major are required.")

(* C37: a request to a route behind isAuthenticated by a session that is   *)
(* not authenticated (no login yet, a failed login, a logout) is answered   *)
(* with the redirect to /login and changes neither the user store, the      *)
(* ledger, the counters nor the session.                                    *)
Protected(a) ==
    \/ \E n \in ProfileNames, m \in ProfileMajorInputs : PostProfile(a, n, m)
    \/ \E c \in Courses : CoursesAdd(a, c) \/ CoursesRemove(a, c)
    \/ \E v \in AvailabilityInputs : PostAvailability(a, v)
    \/ \E c \in GuardSearchCourses, m \in GuardSearchMajors,
            f \in GuardSearchAvailabilities :
        Search(a, c, m, f)
    \/ \E r \in IdInputs, c \in CourseInputs, t \in SlotInputs : SendRequest(a, r, c, t)
    \/ \E r \in IdInputs : Accept(a, r) \/ Decline(a, r) \/ Cancel(a, r, "")
    \/ Dashboard(a) \/ Sessions(a) \/ RequestsJson(a) \/ UsersJson(a)
    \/ \E page \in Pages : GetPage(a, page)

C37_UnauthenticatedRedirected ==
    [][\A a \in Agents :
        ~isAuthenticated(a) /\ Protected(a) =>
            /\ last' = ToLogin
            /\ UNCHANGED <<users, sessionRequests, nextUserId, nextRequestId, session>>]_vars

C37_Witness ==
    /\ Len(users) = 2
    /\ Len(sessionRequests) = 1
    /\ ~isAuthenticated(1)
    /\ last = ToLogin

-----------------------------------------------------------------------------
(* Claims: interleaved requests *)

(* C6: no two user records share a username, also when two registrations   *)
(* for one username are suspended at password hashing at the same time.    *)
C6_UsernamesUnique ==
    \A i, j \in DOMAIN users : users[i].username = users[j].username => i = j

(* C16: no two user records share an id, also when the registrations that  *)
(* inserted them were suspended at password hashing at the same time.      *)
C16_UserIdsUnique ==
    \A i, j \in DOMAIN users : users[i].id = users[j].id => i = j

C16_Witness ==
    /\ Len(users) = 2
    /\ users[1].username = users[2].username
    /\ users[1].id /= users[2].id

(* C7: of the accept/decline calls on one request, whatever their           *)
(* interleaving across sessions, exactly one is answered with success once  *)
(* the request is no longer pending, none while it is pending, and the      *)
(* status is the one that call wrote (or cancelled, after an accept).       *)
C7_OneDecisionPerRequest ==
    /\ Len(decided) = Len(sessionRequests)
    /\ \A i \in DOMAIN sessionRequests :
        decided[i] = CASE sessionRequests[i].status = "pending" -> <<>>
                       [] sessionRequests[i].status = "accepted" -> <<"accepted">>
                       [] sessionRequests[i].status = "declined" -> <<"declined">>
                       [] sessionRequests[i].status = "cancelled" -> <<"accepted">>

C7_Witness ==
    /\ session[1] /= <<>>
    /\ session[2] = session[1]
    /\ \E i \in DOMAIN sessionRequests :
        /\ sessionRequests[i].toUserId = ActingUserId(1)
        /\ sessionRequests[i].status \in {"accepted", "declined"}
    /\ last = InvalidStateNotPending

====
